---- MODULE Spec2Model ----
(***************************************************************************)
(* The gRPC performance layer of flashcard-backend: the connection pool    *)
(* (internal/grpc/connection_pool.go), the worker pool (WorkerPool in the  *)
(* gRPC performance file) and the protobuf optimizer                       *)
(* (internal/grpc/protobuf_optimizer.go).  The three components share no   *)
(* state, so each has a next-state relation of its own over its own        *)
(* variables: SpecCP, SpecWP and SpecPO.                                   *)
(***************************************************************************)
EXTENDS Integers, Sequences, FiniteSets, TLC

\* ------------------------------------------------------------------ bounds

\* Connections ever dialed successfully (connection identities 1..MaxDials).
MaxDials == 2
MaxEntries == 2
\* A pooled connection is reused while its use count is below MaxUse.
MaxUse == 2
\* Worker pool: configured worker counts 1..MaxWorkers, queue sizes
\* 0..MaxQueue, MaxJobs jobs submitted by MaxCallers callers.
MaxWorkers == 2
MaxQueue == 1
MaxJobs == 3
MaxCallers == 2
\* Optimizer: messages carry at most MaxPayload payload bytes; byte strings
\* handed to DeserializeMessage from outside have at most MaxRaw bytes.
MaxPayload == 5
MaxRaw == 3
\* Calls counted by the metrics between two resets.
MaxCalls == 2
\* Buffers the buffer pool makes, goroutines inside the optimizer at once.
MaxBuffers == 1
MaxPoCallers == 2

Targets == {"t1"}
TargetOrder == <<"t1">>

\* ConnectionPoolConfig values the pool is constructed with: MaxConnections,
\* MinConnections, MaxIdleTime (in clock ticks).  Nothing validates a
\* configuration, so MinConnections > MaxConnections is a possible one.
PoolConfigs ==
    { [MaxConnections |-> 1, MinConnections |-> 0, MaxIdleTime |-> 1],
      [MaxConnections |-> 2, MinConnections |-> 1, MaxIdleTime |-> 0],
      [MaxConnections |-> 1, MinConnections |-> 2, MaxIdleTime |-> 0],
      [MaxConnections |-> 4, MinConnections |-> 2, MaxIdleTime |-> 0] }

ConnIds == 1..MaxDials

VARIABLES
    \* ---- connection pool
    config,        \* cp.config
    connections,   \* cp.connections: destination -> sequence of PooledConnection
    grpcState,     \* transport state of each dialed *grpc.ClientConn
    nextId,        \* identity of the next connection a dial returns
    ctxCancelled,  \* cp.ctx is done (cp.cancel() was called)
    loopRunning,   \* the healthCheckLoop goroutine has not returned (cp.wg)
    closePc,       \* where a caller of Close is: "idle" | "waiting"
    closeReturned, \* some Close call has returned
    issued,        \* per connection: GetConnection returns since its last release
    hist,          \* "init" | "oneHC" | "other": what has run since construction
    last,          \* the pool operation that ran last, and what it did
    \* ---- worker pool
    wpConfig,      \* wp.workerCount and cap(wp.jobQueue)
    jobQueue,      \* wp.jobQueue: the jobs buffered in the channel
    quitClosed,    \* wp.quit is closed
    wpPanicked,    \* close of the closed quit channel panicked
    started,       \* Start has spawned the workers
    worker,        \* per worker goroutine: "off" | "idle" | "busy" | "exited"
    workerJob,     \* the job a busy worker executes (0: none)
    jobState,      \* per job: "new" | "queued" | "caller" | "running" | "done"
    jobPath,       \* how Submit took the job: "none" | "queue" | "direct"
    execCount,     \* how many times the job's function was started
    callerJob,     \* the job a caller inside Submit's default branch holds (0: none)
    stats,         \* what the last GetWorkerPoolStats call returned
    \* ---- protobuf optimizer
    poConfig,      \* po.config
    poPanicked,    \* a call dereferenced the nil pooled compressor
    serCall,       \* the last SerializeMessage call: its message and what it returned
    deserCall,     \* the last DeserializeMessage call: its input and what it returned
    metrics,       \* po.metrics (all zero and never written when EnableMetrics is off)
    sinceReset,    \* calls since the last ResetMetrics, and what that reset found
    bufMade,       \* how many buffers po.bufferPool's New has made
    bufArray,      \* per pooled buffer: the contents of its backing array
    dcall,         \* per concurrent caller: its DeserializeMessage call in progress
    snapshot,      \* the *ProtobufMetrics the last GetMetrics call handed out
    mu,            \* po.metrics.mutex: the goroutine holding it for writing, or "none"
    mcall,         \* per goroutine: where its call is with respect to the metrics
    counted,       \* metric updates completed since the counters were last zeroed
    observed,      \* shortest and longest duration since the average was seeded
    vcall,         \* the last ValidateMessage call: its message and its result
    \* ---- the connection pool's locks, goroutine by goroutine
    cpMutex,       \* cp.mutex: the goroutine holding it for writing, those reading
    pcMutex,       \* per pooled connection, pc.mutex likewise
    goroutine,     \* per goroutine: the pool method it is in and how far it got
    ctxDone        \* cp.cancel() has been called

cpVars == <<config, connections, grpcState, nextId, ctxCancelled,
            loopRunning, closePc, closeReturned, issued, hist, last>>

wpVars == <<wpConfig, jobQueue, quitClosed, wpPanicked, started, worker,
            workerJob, jobState, jobPath, execCount, callerJob, stats>>

poVars == <<poConfig, poPanicked, serCall, deserCall, metrics, sinceReset,
            bufMade, bufArray, dcall, snapshot, mu, mcall, counted, observed>>

bufVars == <<bufMade, bufArray, dcall>>

\* What the calls made one at a time read and write, and what only the
\* calls followed step by step do.
seqVars == <<poPanicked, serCall, deserCall, metrics, sinceReset, snapshot, observed>>
lockVars == <<mu, mcall, counted>>
stepVars == <<bufVars, lockVars>>

\* ValidateMessage reads its argument and nothing of the optimizer.
valVars == <<vcall>>

\* The pool's locks are followed apart from what the pool's methods compute.
heldVars == <<cpMutex, pcMutex, goroutine, ctxDone>>

vars == <<cpVars, wpVars, poVars, valVars, heldVars>>

nonCP == <<wpVars, poVars, valVars, heldVars>>
nonWP == <<cpVars, poVars, valVars, heldVars>>
nonPO == <<cpVars, wpVars, valVars, heldVars>>

Workers == 1..MaxWorkers
Jobs == 1..MaxJobs
Callers == 1..MaxCallers

\* ------------------------------------------------------- PooledConnection

NoEvent == [op |-> "none", res |-> "", id |-> 0]

IsHealthy(pc) == grpcState[pc.id] = "ready"

\* MarkUsed leaving the use count as it was.
MarkUsedNotCounting(pc) == [pc EXCEPT !.inUse = TRUE, !.idleFor = 0]

MarkUsed(pc) == [pc EXCEPT !.inUse = TRUE, !.idleFor = 0, !.useCount = @ + 1]

\* MarkIdle leaving the in-use flag set.
MarkIdleKeepingInUse(pc) == [pc EXCEPT !.idleFor = 0]

MarkIdle(pc) == [pc EXCEPT !.inUse = FALSE, !.idleFor = 0]

IsIdle(pc) == ~pc.inUse

\* IsExpired counting an entry last used exactly maxIdleTime ago as expired.
IsExpiredAtLimit(pc, maxIdleTime) == pc.idleFor >= maxIdleTime

IsExpired(pc, maxIdleTime) == pc.idleFor > maxIdleTime

NewPooledConn(id, inUse, useCount) ==
    [id |-> id, inUse |-> inUse, idleFor |-> 0, useCount |-> useCount]

\* ---------------------------------------------------------- ConnectionPool

ConnsOf(t) == IF t \in DOMAIN connections THEN connections[t] ELSE <<>>

SetConns(conns, t, s) ==
    [x \in (DOMAIN conns) \cup {t} |-> IF x = t THEN s ELSE conns[x]]

\* cp.createConnection dialling under a context of its own.
DialOutcomesIgnoringContext == {TRUE, FALSE}

\* cp.createConnection: a dial under cp.ctx cannot succeed once the context is
\* cancelled; otherwise it succeeds or fails (unreachable, timed out).

DialOutcomes == IF ctxCancelled THEN {FALSE} ELSE {TRUE, FALSE}

\* GetConnection's test of an entry, without the idle check.
ReusableIgnoringInUse(pc) == IsHealthy(pc)

\* How often an entry is followed through reuse: MaxUse times, and once
\* more in a pool that never tops up, far enough for one connection to pass
\* through three callers.
UseLimit == IF config.MinConnections = 0 THEN MaxUse + 1 ELSE MaxUse

\* GetConnection's test of an entry, without the liveness check.
ReusableIgnoringHealth(pc) == IsIdle(pc)

\* GetConnection reuses an entry that is idle and healthy.
Reusable(pc) == IsIdle(pc) /\ IsHealthy(pc)

FirstReusable(conns) ==
    LET idx == {i \in 1..Len(conns) : Reusable(conns[i])}
    IN  IF idx = {} THEN 0 ELSE CHOOSE i \in idx : \A k \in idx : i <= k

\* GetConnection's capacity test letting a full set grow once more.
BelowMaxInclusive(conns) == Len(conns) <= config.MaxConnections

BelowMax(conns) == Len(conns) < config.MaxConnections

\* A failed dial leaving the destination in the map with the set it read.
AfterDialRegistering(t, conns, ok) ==
    SetConns(connections, t,
             IF ok THEN Append(conns, NewPooledConn(nextId, TRUE, 1)) ELSE conns)

\* cp.connections once the dial of GetConnection is over: the error is
\* returned before anything is assigned, a connection is appended in use.
AfterDial(t, conns, ok) ==
    IF ok THEN SetConns(connections, t, Append(conns, NewPooledConn(nextId, TRUE, 1)))
    ELSE connections

\* ---- sync.RWMutex

Unheld == [writer |-> "none", readers |-> {}]

CanLock(m) == m.writer = "none" /\ m.readers = {}
CanRLock(m) == m.writer = "none"
Lock(m, g) == [m EXCEPT !.writer = g]
RLock(m, g) == [m EXCEPT !.readers = @ \cup {g}]
Unlock(m, g) == [writer |-> IF m.writer = g THEN "none" ELSE m.writer,
                 readers |-> m.readers \ {g}]
Holds(m, g) == m.writer = g \/ g \in m.readers

\* The goroutines that call the pool's methods, and healthCheckLoop's.
LockCallers == {"c1", "c2"}
Goroutines == LockCallers \cup {"hc"}
Entries == 1..MaxEntries

AtRest == [op |-> "none", k |-> 0, pending |-> FALSE, e |-> 0, m |-> "none"]

\* No goroutine is inside a method of a pool just constructed.
FreshLocks ==
    /\ cpMutex = Unheld
    /\ pcMutex = [e \in Entries |-> Unheld]
    /\ goroutine = [g \in Goroutines |-> AtRest]
    /\ ctxDone = FALSE

InitCP ==
    /\ FreshLocks
    /\ config \in PoolConfigs
    /\ connections = << >>
    /\ grpcState = [i \in ConnIds |-> "none"]
    /\ nextId = 1
    /\ ctxCancelled = FALSE
    /\ loopRunning = TRUE
    /\ closePc = "idle"
    /\ closeReturned = FALSE
    /\ issued = [i \in ConnIds |-> 0]
    /\ hist = "init"
    /\ last = NoEvent

GetConnection(t) ==
    LET conns == ConnsOf(t)
        i == FirstReusable(conns)
    IN  /\ hist' = "other"
        /\ UNCHANGED <<nonCP, config, ctxCancelled, loopRunning, closePc, closeReturned>>
        /\ IF i > 0
           THEN /\ conns[i].useCount < UseLimit
                /\ connections' = [connections EXCEPT ![t][i] = MarkUsed(@)]
                /\ issued' = [issued EXCEPT ![conns[i].id] = @ + 1]
                /\ last' = [op |-> "get", res |-> "reused", id |-> conns[i].id]
                /\ UNCHANGED <<grpcState, nextId>>
           ELSE IF BelowMax(conns)
           THEN \E ok \in DialOutcomes :
                  IF ok
                  THEN /\ nextId <= MaxDials
                       /\ connections' = AfterDial(t, conns, TRUE)
                       /\ grpcState' = [grpcState EXCEPT ![nextId] = "ready"]
                       /\ nextId' = nextId + 1
                       /\ issued' = [issued EXCEPT ![nextId] = @ + 1]
                       /\ last' = [op |-> "get", res |-> "created", id |-> nextId]
                  ELSE /\ connections' = AfterDial(t, conns, FALSE)
                       /\ last' = [op |-> "get", res |-> "dialFailed", id |-> 0]
                       /\ UNCHANGED <<grpcState, nextId, issued>>
           ELSE /\ last' = [op |-> "get", res |-> "exhausted", id |-> 0]
                /\ UNCHANGED <<connections, grpcState, nextId, issued>>

\* The first entry of the destination that wraps conn (0: none).
FirstWrapping(conns, id) ==
    LET idx == {i \in 1..Len(conns) : conns[i].id = id}
    IN  IF idx = {} THEN 0 ELSE CHOOSE i \in idx : \A k \in idx : i <= k

ReleaseConnection(t, id) ==
    LET conns == ConnsOf(t)
        i == FirstWrapping(conns, id)
    IN  /\ id < nextId
        /\ hist' = "other"
        /\ issued' = IF i > 0 THEN [issued EXCEPT ![id] = 0] ELSE issued
        /\ connections' = IF i > 0
                          THEN [connections EXCEPT ![t][i] = MarkIdle(@)]
                          ELSE connections
        /\ last' = [op |-> "release", res |-> IF i > 0 THEN "idle" ELSE "notFound",
                    id |-> id]
        /\ UNCHANGED <<nonCP, config, grpcState, nextId, ctxCancelled,
                       loopRunning, closePc, closeReturned>>

\* ----------------------------------------------------- performHealthCheck

\* The cycle's test of an entry, expiring in-use entries too.
KeepConnExpiringInUse(pc) == IsHealthy(pc) /\ ~IsExpired(pc, config.MaxIdleTime)

\* An entry survives the cycle when it is healthy and not (idle and expired).
KeepConn(pc) == IsHealthy(pc) /\ ~(IsIdle(pc) /\ IsExpired(pc, config.MaxIdleTime))

KeptOf(t) == SelectSeq(connections[t], KeepConn)

EvictedOf(t) ==
    {connections[t][i] : i \in {k \in 1..Len(connections[t]) : ~KeepConn(connections[t][k])}}

\* A top-up that dials once however many entries are missing.
TopUpNeededOne(nKept) == IF nKept < config.MinConnections THEN 1 ELSE 0

\* Dials the top-up of a destination attempts, given how many entries it kept.
TopUpNeeded(nKept) ==
    IF nKept < config.MinConnections THEN config.MinConnections - nKept ELSE 0

RECURSIVE SumOver(_, _)
SumOver(f, S) ==
    IF S = {} THEN 0
    ELSE LET x == CHOOSE y \in S : TRUE IN f[x] + SumOver(f, S \ {x})

TargetIndex(t) == CHOOSE i \in 1..Len(TargetOrder) : TargetOrder[i] = t

\* Destinations of the map the cycle visits before t.
VisitedBefore(t) == {u \in DOMAIN connections : TargetIndex(u) < TargetIndex(t)}

\* The entries the top-up appends: idle, never used.
ToppedUp(firstId, n) == [k \in 1..n |-> NewPooledConn(firstId + k - 1, FALSE, 0)]

performHealthCheck ==
    LET present == DOMAIN connections
        evicted == UNION {EvictedOf(t) : t \in present}
    IN  \E succ \in [present -> 0..MaxDials] :
          LET firstId(t) == nextId + SumOver(succ, VisitedBefore(t))
              total == SumOver(succ, present)
              added == nextId..(nextId + total - 1)
          IN  /\ \A t \in present : succ[t] <= TopUpNeeded(Len(KeptOf(t)))
              /\ ctxCancelled => total = 0
              /\ nextId + total <= MaxDials + 1
              /\ connections' =
                   [t \in present |-> KeptOf(t) \o ToppedUp(firstId(t), succ[t])]
              /\ grpcState' =
                   [i \in ConnIds |->
                      IF i \in {e.id : e \in evicted} THEN "shutdown"
                      ELSE IF i \in added THEN "ready"
                      ELSE grpcState[i]]
              /\ nextId' = nextId + total
              /\ last' = [op |-> "hc",
                           res |-> IF \E t \in present :
                                         succ[t] < TopUpNeeded(Len(KeptOf(t)))
                                    THEN "dialFailed" ELSE "ok",
                           id |-> 0]

\* One turn of healthCheckLoop's select with the ticker ready.
HealthCheckTick ==
    /\ loopRunning
    /\ performHealthCheck
    /\ hist' = IF hist = "init" THEN "oneHC" ELSE "other"
    /\ UNCHANGED <<nonCP, config, ctxCancelled, loopRunning, closePc, closeReturned, issued>>

\* healthCheckLoop's select takes <-cp.ctx.Done() and the goroutine returns.
HealthCheckLoopExit ==
    /\ loopRunning
    /\ ctxCancelled
    /\ loopRunning' = FALSE
    /\ last' = NoEvent
    /\ UNCHANGED <<nonCP, config, connections, grpcState, nextId, ctxCancelled,
                   closePc, closeReturned, issued, hist>>

\* ------------------------------------------------------------------ Close

\* cp.cancel(); the caller then blocks in cp.wg.Wait().
CloseCancel ==
    /\ closePc = "idle"
    /\ closePc' = "waiting"
    /\ ctxCancelled' = TRUE
    /\ hist' = "other"
    /\ last' = NoEvent
    /\ UNCHANGED <<nonCP, config, connections, grpcState, nextId, loopRunning,
                   closeReturned, issued>>

TrackedIds == UNION {{connections[t][i].id : i \in 1..Len(connections[t])}
                     : t \in DOMAIN connections}

\* Close going on without waiting for the health-check goroutine.
CloseFinishNotWaiting ==
    /\ closePc = "waiting"
    /\ closePc' = "idle"
    /\ closeReturned' = TRUE
    /\ grpcState' = [i \in ConnIds |->
                       IF i \in TrackedIds THEN "shutdown" ELSE grpcState[i]]
    /\ connections' = << >>
    /\ last' = [op |-> "close", res |-> "", id |-> 0]
    /\ UNCHANGED <<nonCP, config, nextId, ctxCancelled, loopRunning, issued, hist>>

\* After wg.Wait() returned: close every tracked connection, reset the map.
CloseFinish ==
    /\ closePc = "waiting"
    /\ ~loopRunning
    /\ closePc' = "idle"
    /\ closeReturned' = TRUE
    /\ grpcState' = [i \in ConnIds |->
                       IF i \in TrackedIds THEN "shutdown" ELSE grpcState[i]]
    /\ connections' = << >>
    /\ last' = [op |-> "close", res |-> "", id |-> 0]
    /\ UNCHANGED <<nonCP, config, nextId, ctxCancelled, loopRunning, issued, hist>>

\* ------------------------------------------------------------ environment

\* Time passes: time.Since(pc.lastUsed) grows for every connection.  A value
\* above MaxIdleTime is kept as MaxIdleTime + 1: IsExpired, its only reader,
\* cannot tell such values apart.
Aged(pc) ==
    [pc EXCEPT !.idleFor = IF @ > config.MaxIdleTime THEN @ ELSE @ + 1]

Tick ==
    /\ connections' = [t \in DOMAIN connections |->
                         [i \in 1..Len(connections[t]) |-> Aged(connections[t][i])]]
    /\ last' = NoEvent
    /\ UNCHANGED <<nonCP, config, grpcState, nextId, ctxCancelled,
                   loopRunning, closePc, closeReturned, issued, hist>>

\* A connection's transport leaves Ready/Idle (connecting, transient failure).
TransportFail(id) ==
    /\ grpcState[id] = "ready"
    /\ grpcState' = [grpcState EXCEPT ![id] = "failed"]
    /\ last' = NoEvent
    /\ UNCHANGED <<nonCP, config, connections, nextId, ctxCancelled,
                   loopRunning, closePc, closeReturned, issued, hist>>

\* The transport reconnects.
TransportRecover(id) ==
    /\ grpcState[id] = "failed"
    /\ grpcState' = [grpcState EXCEPT ![id] = "ready"]
    /\ last' = NoEvent
    /\ UNCHANGED <<nonCP, config, connections, nextId, ctxCancelled,
                   loopRunning, closePc, closeReturned, issued, hist>>

NextCP ==
    \/ \E t \in Targets : GetConnection(t)
    \/ \E t \in Targets, id \in ConnIds : ReleaseConnection(t, id)
    \/ HealthCheckTick
    \/ HealthCheckLoopExit
    \/ CloseCancel
    \/ CloseFinish
    \/ Tick
    \/ \E id \in ConnIds : TransportFail(id)
    \/ \E id \in ConnIds : TransportRecover(id)

\* ReleaseConnection(target, conn) called once more by a caller that gave
\* conn back earlier, while the caller it was handed to since still holds
\* it.  The pool keeps no record of who holds a connection: the loop finds
\* the entry and marks it idle as for any release.  issued keeps counting
\* the holder that did not release.
ReleaseConnectionAgain(t, id) ==
    LET conns == ConnsOf(t)
        i == FirstWrapping(conns, id)
    IN  /\ id < nextId
        /\ i > 0
        /\ issued[id] >= 1
        /\ conns[i].useCount > issued[id]
        /\ hist' = "other"
        /\ connections' = [connections EXCEPT ![t][i] = MarkIdle(@)]
        /\ last' = [op |-> "release", res |-> "idle", id |-> id]
        /\ UNCHANGED <<nonCP, config, grpcState, nextId, ctxCancelled,
                       loopRunning, closePc, closeReturned, issued>>

\* The pool with callers that may release a connection twice.
NextCPAgain ==
    \/ NextCP
    \/ \E t \in Targets, id \in ConnIds : ReleaseConnectionAgain(t, id)

\* ------------------------------------------- the pool's locks, step by step

\* The lock each method of PooledConnection takes on pc.mutex.
MethodMutex == [IsHealthy |-> "RLock", MarkUsed |-> "Lock", MarkIdle |-> "Lock",
                IsIdle |-> "RLock", IsExpired |-> "RLock", Close |-> "Lock"]

\* The methods of PooledConnection a method of the pool calls on the entries.
Calls(op) ==
    CASE op = "GetConnection" -> {"IsIdle", "IsHealthy", "MarkUsed"}
      [] op = "ReleaseConnection" -> {"MarkIdle"}
      [] op = "GetStats" -> {"IsIdle"}
      [] op = "performHealthCheck" -> {"IsHealthy", "IsIdle", "IsExpired", "Close"}
      [] op = "Close" -> {"Close"}
      [] OTHER -> {}

CloseStepsLockFirst == <<"cancel", "Lock", "Wait">>

\* Close: cp.cancel(), cp.wg.Wait(), cp.mutex.Lock().
CloseSteps == <<"cancel", "Wait", "Lock">>

\* What a method of the pool does before it touches the entries.
Prelude(op) ==
    IF op = "Close" THEN CloseSteps
    ELSE IF op = "GetStats" THEN <<"RLock">>
    ELSE <<"Lock">>

\* Where a goroutine is: at rest, at a step of the prelude, or among the entries.
Step(g) ==
    LET r == goroutine[g]
    IN  IF r.op \in {"none", "exited"} THEN "rest"
        ELSE IF r.k <= Len(Prelude(r.op)) THEN Prelude(r.op)[r.k]
        ELSE "body"

\* cp.mutex.Lock() has been called and has not returned.
PendingWriters == {g \in Goroutines : Step(g) = "Lock" /\ goroutine[g].pending}

\* A caller enters a method of the pool.
BeginOp(g, op) ==
    /\ goroutine[g].op = "none"
    /\ goroutine' = [goroutine EXCEPT ![g] = [AtRest EXCEPT !.op = op, !.k = 1]]
    /\ UNCHANGED <<cpVars, wpVars, poVars, valVars, cpMutex, pcMutex, ctxDone>>

\* healthCheckLoop: case <-ticker.C
TickerFires ==
    /\ goroutine["hc"].op = "none"
    /\ goroutine' = [goroutine EXCEPT
                        !["hc"] = [AtRest EXCEPT !.op = "performHealthCheck", !.k = 1]]
    /\ UNCHANGED <<cpVars, wpVars, poVars, valVars, cpMutex, pcMutex, ctxDone>>

\* healthCheckLoop: case <-cp.ctx.Done(), and the deferred cp.wg.Done()
LoopExit ==
    /\ goroutine["hc"].op = "none"
    /\ ctxDone
    /\ goroutine' = [goroutine EXCEPT !["hc"] = [AtRest EXCEPT !.op = "exited"]]
    /\ UNCHANGED <<cpVars, wpVars, poVars, valVars, cpMutex, pcMutex, ctxDone>>

\* Close: cp.cancel()
Cancel(g) ==
    /\ Step(g) = "cancel"
    /\ ctxDone' = TRUE
    /\ goroutine' = [goroutine EXCEPT ![g].k = @ + 1]
    /\ UNCHANGED <<cpVars, wpVars, poVars, valVars, cpMutex, pcMutex>>

\* Close: cp.wg.Wait() returns once healthCheckLoop has.
Wait(g) ==
    /\ Step(g) = "Wait"
    /\ goroutine["hc"].op = "exited"
    /\ goroutine' = [goroutine EXCEPT ![g].k = @ + 1]
    /\ UNCHANGED <<cpVars, wpVars, poVars, valVars, cpMutex, pcMutex, ctxDone>>

\* cp.mutex.Lock(): it returns at once when the lock is free, and otherwise
\* the caller is a pending writer until it is.
PoolLock(g) ==
    /\ Step(g) = "Lock"
    /\ IF CanLock(cpMutex)
       THEN /\ cpMutex' = Lock(cpMutex, g)
            /\ goroutine' = [goroutine EXCEPT ![g].k = @ + 1, ![g].pending = FALSE]
       ELSE /\ ~goroutine[g].pending
            /\ goroutine' = [goroutine EXCEPT ![g].pending = TRUE]
            /\ UNCHANGED cpMutex
    /\ UNCHANGED <<cpVars, wpVars, poVars, valVars, pcMutex, ctxDone>>

\* cp.mutex.RLock(): a pending writer holds new readers back.
PoolRLock(g) ==
    /\ Step(g) = "RLock"
    /\ CanRLock(cpMutex)
    /\ PendingWriters = {}
    /\ cpMutex' = RLock(cpMutex, g)
    /\ goroutine' = [goroutine EXCEPT ![g].k = @ + 1]
    /\ UNCHANGED <<cpVars, wpVars, poVars, valVars, pcMutex, ctxDone>>

\* The method of the pool calls a method of an entry.
MethodCall(g, e, m) ==
    /\ Step(g) = "body"
    /\ goroutine[g].e = 0
    /\ m \in Calls(goroutine[g].op)
    /\ goroutine' = [goroutine EXCEPT ![g].e = e, ![g].m = m]
    /\ UNCHANGED <<cpVars, wpVars, poVars, valVars, cpMutex, pcMutex, ctxDone>>

\* pc.mutex.Lock() or pc.mutex.RLock() of the method called
MethodLock(g) ==
    LET r == goroutine[g]
    IN  /\ Step(g) = "body"
        /\ r.e # 0
        /\ ~Holds(pcMutex[r.e], g)
        /\ IF MethodMutex[r.m] = "Lock"
           THEN /\ CanLock(pcMutex[r.e])
                /\ pcMutex' = [pcMutex EXCEPT ![r.e] = Lock(@, g)]
           ELSE /\ CanRLock(pcMutex[r.e])
                /\ pcMutex' = [pcMutex EXCEPT ![r.e] = RLock(@, g)]
        /\ UNCHANGED <<cpVars, wpVars, poVars, valVars, cpMutex, goroutine, ctxDone>>

\* the deferred pc.mutex.Unlock() or pc.mutex.RUnlock(): the method returns
MethodUnlock(g) ==
    LET r == goroutine[g]
    IN  /\ Step(g) = "body"
        /\ r.e # 0
        /\ Holds(pcMutex[r.e], g)
        /\ pcMutex' = [pcMutex EXCEPT ![r.e] = Unlock(@, g)]
        /\ goroutine' = [goroutine EXCEPT ![g].e = 0, ![g].m = "none"]
        /\ UNCHANGED <<cpVars, wpVars, poVars, valVars, cpMutex, ctxDone>>

\* the deferred cp.mutex.Unlock() or cp.mutex.RUnlock(): the method returns
PoolUnlock(g) ==
    /\ Step(g) = "body"
    /\ goroutine[g].e = 0
    /\ cpMutex' = Unlock(cpMutex, g)
    /\ goroutine' = [goroutine EXCEPT ![g] = AtRest]
    /\ UNCHANGED <<cpVars, wpVars, poVars, valVars, pcMutex, ctxDone>>

\* What a goroutine inside a method can do next.
Proceed(g) ==
    \/ Cancel(g)
    \/ Wait(g)
    \/ PoolLock(g)
    \/ PoolRLock(g)
    \/ \E e \in Entries, m \in DOMAIN MethodMutex : MethodCall(g, e, m)
    \/ MethodLock(g)
    \/ MethodUnlock(g)
    \/ PoolUnlock(g)

PoolMethods == {"GetConnection", "ReleaseConnection", "GetStats", "Close"}

NextCPLocks ==
    \/ \E g \in LockCallers, op \in PoolMethods : BeginOp(g, op)
    \/ TickerFires
    \/ LoopExit
    \/ \E g \in Goroutines : Cancel(g)
    \/ \E g \in Goroutines : Wait(g)
    \/ \E g \in Goroutines : PoolLock(g)
    \/ \E g \in Goroutines : PoolRLock(g)
    \/ \E g \in Goroutines, e \in Entries, m \in DOMAIN MethodMutex : MethodCall(g, e, m)
    \/ \E g \in Goroutines : MethodLock(g)
    \/ \E g \in Goroutines : MethodUnlock(g)
    \/ \E g \in Goroutines : PoolUnlock(g)

\* ============================================================ WorkerPool

\* NewWorkerPool(workerCount, queueSize, logger)
NoStats == [op |-> "none", worker_count |-> 0, queue_length |-> 0, queue_capacity |-> 0]

InitWP ==
    /\ wpConfig \in [WorkerCount : 1..MaxWorkers, QueueSize : 0..MaxQueue]
    /\ jobQueue = << >>
    /\ quitClosed = FALSE
    /\ wpPanicked = FALSE
    /\ started = FALSE
    /\ worker = [w \in Workers |-> "off"]
    /\ workerJob = [w \in Workers |-> 0]
    /\ jobState = [j \in Jobs |-> "new"]
    /\ jobPath = [j \in Jobs |-> "none"]
    /\ execCount = [j \in Jobs |-> 0]
    /\ callerJob = [c \in Callers |-> 0]
    /\ stats = NoStats

\* Start: go wp.worker(i) for i < workerCount.
Start ==
    /\ ~wpPanicked
    /\ ~started
    /\ started' = TRUE
    /\ worker' = [w \in Workers |->
                    IF w <= wpConfig.WorkerCount THEN "idle" ELSE worker[w]]
    /\ UNCHANGED <<nonWP, stats, wpConfig, jobQueue, quitClosed, wpPanicked, workerJob,
                   jobState, jobPath, execCount, callerJob>>

\* Stop: close(wp.quit); closing a closed channel panics.
Stop ==
    /\ ~wpPanicked
    /\ IF quitClosed
       THEN wpPanicked' = TRUE /\ UNCHANGED quitClosed
       ELSE quitClosed' = TRUE /\ UNCHANGED wpPanicked
    /\ UNCHANGED <<nonWP, stats, wpConfig, jobQueue, started, worker, workerJob,
                   jobState, jobPath, execCount, callerJob>>

\* Jobs are submitted in the order of their numbers.
NextJob(j) == jobState[j] = "new" /\ \A k \in Jobs : k < j => jobState[k] # "new"

CallerFree(c) == callerJob[c] = 0

\* Submit, case wp.jobQueue <- job: the channel buffer has room.
SubmitEnqueue(c, j) ==
    /\ ~wpPanicked
    /\ CallerFree(c)
    /\ NextJob(j)
    /\ Len(jobQueue) < wpConfig.QueueSize
    /\ jobQueue' = Append(jobQueue, j)
    /\ jobState' = [jobState EXCEPT ![j] = "queued"]
    /\ jobPath' = [jobPath EXCEPT ![j] = "queue"]
    /\ UNCHANGED <<nonWP, stats, wpConfig, quitClosed, wpPanicked, started, worker,
                   workerJob, execCount, callerJob>>

\* Submit, case wp.jobQueue <- job on an unbuffered channel: a worker parked
\* in its select receives the job at once.  close(wp.quit) wakes every parked
\* worker for its quit case, so no receiver is parked once quit is closed.
SubmitHandoff(c, j, w) ==
    /\ ~wpPanicked
    /\ CallerFree(c)
    /\ NextJob(j)
    /\ wpConfig.QueueSize = 0
    /\ ~quitClosed
    /\ worker[w] = "idle"
    /\ worker' = [worker EXCEPT ![w] = "busy"]
    /\ workerJob' = [workerJob EXCEPT ![w] = j]
    /\ jobState' = [jobState EXCEPT ![j] = "running"]
    /\ jobPath' = [jobPath EXCEPT ![j] = "queue"]
    /\ execCount' = [execCount EXCEPT ![j] = @ + 1]
    /\ UNCHANGED <<nonWP, stats, wpConfig, jobQueue, quitClosed, wpPanicked, started,
                   callerJob>>

\* Submit, default case: the send cannot proceed.
SubmitDefault(c, j) ==
    /\ ~wpPanicked
    /\ CallerFree(c)
    /\ NextJob(j)
    /\ Len(jobQueue) >= wpConfig.QueueSize
    /\ callerJob' = [callerJob EXCEPT ![c] = j]
    /\ jobState' = [jobState EXCEPT ![j] = "caller"]
    /\ jobPath' = [jobPath EXCEPT ![j] = "direct"]
    /\ UNCHANGED <<nonWP, stats, wpConfig, jobQueue, quitClosed, wpPanicked, started,
                   worker, workerJob, execCount>>

\* Submit's default case logging the overload and dropping the job.
SubmitSpawnDropping(c) ==
    /\ ~wpPanicked
    /\ callerJob[c] # 0
    /\ jobState' = [jobState EXCEPT ![callerJob[c]] = "dropped"]
    /\ callerJob' = [callerJob EXCEPT ![c] = 0]
    /\ UNCHANGED <<nonWP, stats, wpConfig, jobQueue, quitClosed, wpPanicked, started,
                   worker, workerJob, jobPath, execCount>>

\* Submit, default case, go job(): the job starts in a goroutine of its own
\* and Submit returns.
SubmitSpawn(c) ==
    /\ ~wpPanicked
    /\ callerJob[c] # 0
    /\ jobState' = [jobState EXCEPT ![callerJob[c]] = "running"]
    /\ execCount' = [execCount EXCEPT ![callerJob[c]] = @ + 1]
    /\ callerJob' = [callerJob EXCEPT ![c] = 0]
    /\ UNCHANGED <<nonWP, stats, wpConfig, jobQueue, quitClosed, wpPanicked, started,
                   worker, workerJob, jobPath>>

\* The goroutine go job() started runs the job to its end.
GoFinish(j) ==
    /\ ~wpPanicked
    /\ jobState[j] = "running"
    /\ jobPath[j] = "direct"
    /\ jobState' = [jobState EXCEPT ![j] = "done"]
    /\ UNCHANGED <<nonWP, stats, wpConfig, jobQueue, quitClosed, wpPanicked, started,
                   worker, workerJob, jobPath, execCount, callerJob>>

\* worker, case job := <-wp.jobQueue: take the head of the queue and call it.
WorkerDequeue(w) ==
    /\ ~wpPanicked
    /\ worker[w] = "idle"
    /\ jobQueue # << >>
    /\ jobQueue' = Tail(jobQueue)
    /\ worker' = [worker EXCEPT ![w] = "busy"]
    /\ workerJob' = [workerJob EXCEPT ![w] = Head(jobQueue)]
    /\ jobState' = [jobState EXCEPT ![Head(jobQueue)] = "running"]
    /\ execCount' = [execCount EXCEPT ![Head(jobQueue)] = @ + 1]
    /\ UNCHANGED <<nonWP, stats, wpConfig, quitClosed, wpPanicked, started, jobPath,
                   callerJob>>

\* worker: job() returns and the worker goes back to its select.
WorkerFinish(w) ==
    /\ ~wpPanicked
    /\ worker[w] = "busy"
    /\ worker' = [worker EXCEPT ![w] = "idle"]
    /\ workerJob' = [workerJob EXCEPT ![w] = 0]
    /\ jobState' = [jobState EXCEPT ![workerJob[w]] = "done"]
    /\ UNCHANGED <<nonWP, stats, wpConfig, jobQueue, quitClosed, wpPanicked, started,
                   jobPath, execCount, callerJob>>

\* A worker that looks at wp.quit only when the queue has nothing for it.
WorkerQuitWhenQueueEmpty(w) ==
    /\ ~wpPanicked
    /\ worker[w] = "idle"
    /\ quitClosed
    /\ jobQueue = << >>
    /\ worker' = [worker EXCEPT ![w] = "exited"]
    /\ UNCHANGED <<nonWP, stats, wpConfig, jobQueue, quitClosed, wpPanicked, started,
                   workerJob, jobState, jobPath, execCount, callerJob>>

\* worker, case <-wp.quit: return.
WorkerQuit(w) ==
    /\ ~wpPanicked
    /\ worker[w] = "idle"
    /\ quitClosed
    /\ worker' = [worker EXCEPT ![w] = "exited"]
    /\ UNCHANGED <<nonWP, stats, wpConfig, jobQueue, quitClosed, wpPanicked, started,
                   workerJob, jobState, jobPath, execCount, callerJob>>

\* GetWorkerPoolStats counting the jobs the workers execute as queued.
QueueLengthWithRunning == Len(jobQueue) + Cardinality({w \in Workers : worker[w] = "busy"})

\* len(wp.jobQueue)
QueueLength == Len(jobQueue)

\* GetWorkerPoolStats: worker_count, queue_length, queue_capacity (queue_usage
\* is their quotient times 100).
GetWorkerPoolStats ==
    /\ ~wpPanicked
    /\ stats' = [op |-> "stats",
                 worker_count |-> wpConfig.WorkerCount,
                 queue_length |-> QueueLength,
                 queue_capacity |-> wpConfig.QueueSize]
    /\ UNCHANGED <<nonWP, wpConfig, jobQueue, quitClosed, wpPanicked, started, worker,
                   workerJob, jobState, jobPath, execCount, callerJob>>

NextWP ==
    \/ Start
    \/ Stop
    \/ \E c \in Callers, j \in Jobs : SubmitEnqueue(c, j)
    \/ \E c \in Callers, j \in Jobs, w \in Workers : SubmitHandoff(c, j, w)
    \/ \E c \in Callers, j \in Jobs : SubmitDefault(c, j)
    \/ \E c \in Callers : SubmitSpawn(c)
    \/ \E j \in Jobs : GoFinish(j)
    \/ \E w \in Workers : WorkerDequeue(w)
    \/ \E w \in Workers : WorkerFinish(w)
    \/ \E w \in Workers : WorkerQuit(w)

NextWPStats == NextWP \/ GetWorkerPoolStats

\* Callers go on submitting without end: the number of a job that has run
\* to its end names the next job a caller brings.
JobNumberReused(j) ==
    /\ ~wpPanicked
    /\ jobState[j] = "done"
    /\ jobState' = [jobState EXCEPT ![j] = "new"]
    /\ jobPath' = [jobPath EXCEPT ![j] = "none"]
    /\ execCount' = [execCount EXCEPT ![j] = 0]
    /\ UNCHANGED <<nonWP, stats, wpConfig, jobQueue, quitClosed, wpPanicked, started,
                   worker, workerJob, callerJob>>

\* The pool with a buffered queue (no hand-off to a parked worker) that one
\* caller keeps refilling.
NextWPStream ==
    \/ Start
    \/ Stop
    \/ \E j \in Jobs : SubmitEnqueue(1, j)
    \/ \E j \in Jobs : SubmitDefault(1, j)
    \/ SubmitSpawn(1)
    \/ \E j \in Jobs : GoFinish(j)
    \/ \E w \in Workers : WorkerDequeue(w)
    \/ \E w \in Workers : WorkerFinish(w)
    \/ \E w \in Workers : WorkerQuit(w)
    \/ \E j \in Jobs : JobNumberReused(j)

\* ===================================================== ProtobufOptimizer

\* ProtobufOptimizerConfig values: sizes in bytes; LevelValid says whether
\* CompressionLevel is a level gzip.NewWriterLevel accepts.
PoConfigs ==
    { [EnableCompression |-> ec, CompressionThreshold |-> th, MaxMessageSize |-> mx,
       EnablePooling |-> TRUE, LevelValid |-> TRUE, EnableMetrics |-> FALSE]
      : ec \in BOOLEAN, th \in {0, 6}, mx \in {4, 8} }
    \cup
    { [EnableCompression |-> TRUE, CompressionThreshold |-> 0, MaxMessageSize |-> 8,
       EnablePooling |-> pl, LevelValid |-> lv, EnableMetrics |-> FALSE]
      : pl \in BOOLEAN, lv \in BOOLEAN }

\* Configurations that keep metrics.
PoMetricConfigs ==
    { [EnableCompression |-> ec, CompressionThreshold |-> 0, MaxMessageSize |-> mx,
       EnablePooling |-> TRUE, LevelValid |-> TRUE, EnableMetrics |-> TRUE]
      : ec \in BOOLEAN, mx \in {4, 8} }

\* Messages: one bytes field (number 1) holding the payload.
PayloadBytes == {4, 5}

RECURSIVE SeqsUpTo(_, _)
SeqsUpTo(S, n) ==
    IF n = 0 THEN {<< >>}
    ELSE LET shorter == SeqsUpTo(S, n - 1)
         IN  shorter \cup {Append(q, x) : q \in {r \in shorter : Len(r) = n - 1}, x \in S}

Messages == SeqsUpTo(PayloadBytes, MaxPayload)

Take(q, n) == SubSeq(q, 1, IF n < Len(q) THEN n ELSE Len(q))

\* proto.Marshal: the field's tag (field 1, wire type 2), the payload length,
\* the payload; a field holding its default (empty) value is left out.
FieldTag == 10

Marshal(m) == IF m = << >> THEN << >> ELSE <<FieldTag, Len(m)>> \o m

\* proto.Unmarshal into a fresh message of that type.
Unmarshal(data) ==
    IF data = << >> THEN [ok |-> TRUE, msg |-> << >>]
    ELSE IF Len(data) >= 2 /\ data[1] = FieldTag /\ data[2] = Len(data) - 2
    THEN [ok |-> TRUE, msg |-> SubSeq(data, 3, Len(data))]
    ELSE [ok |-> FALSE, msg |-> << >>]

\* The compressed container: the two magic bytes, then the content as
\* (run length, byte) pairs.  It shrinks repetitive content and grows the rest.
Magic1 == 31
Magic2 == 139

RunLen(d) ==
    CHOOSE n \in 1..Len(d) :
        /\ \A i \in 1..n : d[i] = d[1]
        /\ n = Len(d) \/ d[n + 1] # d[1]

RECURSIVE Runs(_)
Runs(d) ==
    IF d = << >> THEN << >>
    ELSE <<RunLen(d), d[1]>> \o Runs(SubSeq(d, RunLen(d) + 1, Len(d)))

\* gzip.Writer: Write(data), Close().
Gzip(data) == <<Magic1, Magic2>> \o Runs(data)

RECURSIVE Unruns(_)
Unruns(b) ==
    IF b = << >> THEN << >>
    ELSE [k \in 1..b[1] |-> b[2]] \o Unruns(SubSeq(b, 3, Len(b)))

WellFormedRuns(b) ==
    /\ Len(b) % 2 = 0
    /\ \A i \in 1..Len(b) : i % 2 = 1 => b[i] >= 1

\* gzip.NewReader and reading it to the end: the content, or an error.
Gunzip(data) ==
    IF /\ Len(data) >= 2
       /\ data[1] = Magic1
       /\ data[2] = Magic2
       /\ WellFormedRuns(SubSeq(data, 3, Len(data)))
    THEN [ok |-> TRUE, data |-> Unruns(SubSeq(data, 3, Len(data)))]
    ELSE [ok |-> FALSE, data |-> << >>]

\* isCompressedData looking at the first byte only.
isCompressedDataFirstByte(data) == Len(data) >= 1 /\ data[1] = Magic1

isCompressedData(data) == Len(data) >= 2 /\ data[1] = Magic1 /\ data[2] = Magic2

\* compressData: "ok" with the container, "error" (NewWriterLevel refuses the
\* level) or "panic" (the pool's New dropped that error and handed out nil).
compressData(data) ==
    IF poConfig.LevelValid THEN [res |-> "ok", data |-> Gzip(data)]
    ELSE IF poConfig.EnablePooling THEN [res |-> "panic", data |-> << >>]
    ELSE [res |-> "error", data |-> << >>]

\* decompressData: the content read through io.LimitReader(MaxMessageSize).
decompressData(data) ==
    LET g == Gunzip(data)
    IN  IF g.ok THEN [ok |-> TRUE, data |-> Take(g.data, poConfig.MaxMessageSize)]
        ELSE [ok |-> FALSE, data |-> << >>]

\* SerializeMessage accepting a compressed form that is not longer.
AcceptCompressedNotLonger(compressed, data) == Len(compressed) <= Len(data)

\* SerializeMessage uses the compressed form when it is shorter.
AcceptCompressed(compressed, data) == Len(compressed) < Len(data)

NoSerCall == [op |-> "none", msg |-> << >>, encoded |-> << >>, attempted |-> FALSE,
              out |-> << >>, err |-> "", duration |-> 0]

NoDeserCall == [op |-> "none", input |-> << >>, attempted |-> FALSE,
                decoderInput |-> << >>, msg |-> << >>, err |-> ""]

\* SerializeMessage checking the size only after the compression step.
MessageTooLargeUnchecked(data) == FALSE

\* SerializeMessage's size check on the encoded message.
MessageTooLarge(data) == Len(data) > poConfig.MaxMessageSize

\* What SerializeMessage(msg) returns.
SerializeResult(m) ==
    LET data == Marshal(m)
        call == [NoSerCall EXCEPT !.op = "serialize", !.msg = m, !.encoded = data]
    IN  IF MessageTooLarge(data)
        THEN [call EXCEPT !.err = "tooLarge"]
        ELSE IF poConfig.EnableCompression /\ Len(data) > poConfig.CompressionThreshold
        THEN LET c == compressData(data)
             IN  IF c.res = "panic"
                 THEN [call EXCEPT !.attempted = TRUE, !.err = "panic"]
                 ELSE IF c.res = "error"
                 THEN [call EXCEPT !.attempted = TRUE, !.out = data]
                 ELSE IF AcceptCompressed(c.data, data)
                 THEN [call EXCEPT !.attempted = TRUE, !.out = c.data]
                 ELSE [call EXCEPT !.attempted = TRUE, !.out = data]
        ELSE [call EXCEPT !.out = data]

\* The decoder's input when decompression was attempted: the decompressed
\* bytes, or on failure the input itself.
DecoderInputRaw(data) == data

DecoderInput(data) ==
    LET d == decompressData(data) IN IF d.ok THEN d.data ELSE data

\* What DeserializeMessage(data, msg) returns.
DeserializeResult(data) ==
    LET call == [NoDeserCall EXCEPT !.op = "deserialize", !.input = data]
    IN  IF Len(data) > poConfig.MaxMessageSize
        THEN [call EXCEPT !.err = "tooLarge"]
        ELSE LET attempt == poConfig.EnableCompression /\ isCompressedData(data)
                 toDecode == IF attempt THEN DecoderInput(data) ELSE data
                 u == Unmarshal(toDecode)
             IN  [call EXCEPT !.attempted = attempt,
                              !.decoderInput = toDecode,
                              !.msg = u.msg,
                              !.err = IF u.ok THEN "" ELSE "unmarshal"]

\* ProtobufMetrics; AvgCompressionRatio is kept as the two integers whose
\* quotient it is (0 over 1 while it is zero).
NoMetrics ==
    [SerializationCount |-> 0, DeserializationCount |-> 0, CompressionCount |-> 0,
     TotalSerializedSize |-> 0, TotalCompressedSize |-> 0,
     AvgSerializationTime |-> 0, AvgCompressionRatio |-> <<0, 1>>]

\* time.Since(start) of a call, in nanoseconds.
Durations == {10, 30}

\* The average with a tenth of the new duration added and nothing taken off.
EmaAdding(avg, d) == avg + d \div 10

\* The exponential moving average with alpha = 0.1, cut to a whole Duration.
Ema(avg, d) == (9 * avg + d) \div 10

\* updateSerializationMetrics blending the first duration as well.
NextAvgBlended(count, avg, d) == Ema(avg, d)

\* AvgSerializationTime once SerializationCount has been raised to count.
NextAvg(count, avg, d) == IF count = 1 THEN d ELSE Ema(avg, d)

updateSerializationMetrics(mt, d) ==
    [mt EXCEPT !.SerializationCount = @ + 1,
               !.AvgSerializationTime = NextAvg(mt.SerializationCount + 1, @, d)]

updateDeserializationMetrics(mt) == [mt EXCEPT !.DeserializationCount = @ + 1]

\* updateCompressionMetrics adding each size to the other total.
updateCompressionMetricsSwapped(mt, originalSize, compressedSize) ==
    [mt EXCEPT !.CompressionCount = @ + 1,
               !.TotalSerializedSize = @ + compressedSize,
               !.TotalCompressedSize = @ + originalSize]

updateCompressionMetrics(mt, originalSize, compressedSize) ==
    LET ser == mt.TotalSerializedSize + originalSize
        cmp == mt.TotalCompressedSize + compressedSize
    IN  [mt EXCEPT !.CompressionCount = @ + 1,
                   !.TotalSerializedSize = ser,
                   !.TotalCompressedSize = cmp,
                   !.AvgCompressionRatio = IF ser > 0 THEN <<cmp, ser>> ELSE @]

\* The call returned the compressed form.
UsedCompressed(call) == call.err = "" /\ call.out # call.encoded

\* po.metrics after a SerializeMessage call that took d.
MetricsAfterSerialize(mt, call, d) ==
    IF ~poConfig.EnableMetrics THEN mt
    ELSE updateSerializationMetrics(
             IF UsedCompressed(call)
             THEN updateCompressionMetrics(mt, Len(call.encoded), Len(call.out))
             ELSE mt,
             d)

\* No duration has gone into the average.
NoneObserved == [lo |-> 0, hi |-> 0]

Lesser(a, b) == IF a < b THEN a ELSE b

Greater(a, b) == IF a > b THEN a ELSE b

\* The durations the average has been fed once d is added to metrics mt:
\* d alone when it seeds the average, the range widened by d otherwise.
Observe(mt, d) ==
    IF mt.SerializationCount = 0 THEN [lo |-> d, hi |-> d]
    ELSE [lo |-> Lesser(observed.lo, d), hi |-> Greater(observed.hi, d)]

NoReset == [calls |-> -1, residue |-> FALSE]

\* Goroutines whose calls reach the metrics at once.
MetricCallers == {"g1", "g2"}

\* A goroutine outside any call.  Inside, pc says which critical section of
\* the metrics it is about to enter ("want...") or is in ("in..."), read is
\* what it read there, and the rest is what its call will add.
NoMetricCall == [pc |-> "idle", read |-> NoMetrics, original |-> 0, compressed |-> 0,
                 duration |-> 0]

\* No GetMetrics result is held.  A result holds its own values (val), or, if
\* shared, is the aggregator's own struct.
NoSnapshot == [taken |-> FALSE, shared |-> FALSE, val |-> NoMetrics]

\* Buffers of po.bufferPool and goroutines calling the optimizer at once.
BufIds == 1..MaxBuffers
PoCallers == 1..MaxPoCallers

\* A caller outside DeserializeMessage.  Inside, held is the slice the caller
\* goes on with: bytes of its own (buf = 0) or the first len bytes of the
\* backing array of pooled buffer buf.
NoCall == [pc |-> "idle", input |-> << >>,
           held |-> [buf |-> 0, len |-> 0, own |-> << >>],
           msg |-> << >>, err |-> ""]

\* ------------------------------------------------------- ValidateMessage

MaxFields == 3

Cardinalities == {"optional", "required", "repeated"}

\* A field of a message: its descriptor's cardinality, and whether the
\* message has it populated.
FieldStates == [cardinality : Cardinalities, has : BOOLEAN]

\* The arguments of ValidateMessage: the nil interface, a message whose
\* ProtoReflect().IsValid() is false (a nil pointer of a message type), and
\* the valid messages, each the list of its fields in declaration order.
ProtoMessages ==
    {[kind |-> "nil", fields |-> << >>], [kind |-> "invalid", fields |-> << >>]}
       \cup {[kind |-> "valid", fields |-> fs] : fs \in SeqsUpTo(FieldStates, MaxFields)}

\* The check treating every unset field as missing.
IsMissingAnyCardinality(field) == ~field.has

\* field.Cardinality() == protoreflect.Required && !reflectMsg.Has(field)
IsMissing(field) == field.cardinality = "required" /\ ~field.has

\* The loop over fields.Get(i) from index i on (1-based): the index at which
\* it returns the error, 0 if it runs to the end.
RECURSIVE FirstMissingFrom(_, _)
FirstMissingFrom(fields, i) ==
    IF i > Len(fields) THEN 0
    ELSE IF IsMissing(fields[i]) THEN i
    ELSE FirstMissingFrom(fields, i + 1)

NoValidateCall == [op |-> "none", msg |-> [kind |-> "nil", fields |-> << >>],
                   err |-> "", field |-> 0]

ValidateResult(msg) ==
    IF msg.kind = "nil"
    THEN [op |-> "validate", msg |-> msg, err |-> "message is nil", field |-> 0]
    ELSE IF msg.kind = "invalid"
    THEN [op |-> "validate", msg |-> msg, err |-> "message is not valid", field |-> 0]
    ELSE IF FirstMissingFrom(msg.fields, 1) # 0
    THEN [op |-> "validate", msg |-> msg, err |-> "required field is missing",
          field |-> FirstMissingFrom(msg.fields, 1)]
    ELSE [op |-> "validate", msg |-> msg, err |-> "", field |-> 0]

ValidateMessage(msg) ==
    /\ vcall' = ValidateResult(msg)
    /\ UNCHANGED <<cpVars, wpVars, poVars, heldVars>>

NextPOValidate == \E msg \in ProtoMessages : ValidateMessage(msg)

\* NewProtobufOptimizer(config, logger)
FreshPO ==
    /\ poPanicked = FALSE
    /\ serCall = NoSerCall
    /\ deserCall = NoDeserCall
    /\ metrics = NoMetrics
    /\ sinceReset = NoReset
    /\ observed = NoneObserved
    /\ bufMade = 0
    /\ bufArray = [b \in BufIds |-> << >>]
    /\ dcall = [c \in PoCallers |-> NoCall]
    /\ snapshot = NoSnapshot
    /\ mu = "none"
    /\ mcall = [c \in MetricCallers |-> NoMetricCall]
    /\ counted = [ser |-> 0, deser |-> 0]
    /\ vcall = NoValidateCall

InitPO ==
    /\ poConfig \in PoConfigs
    /\ FreshPO

InitPOMetrics ==
    /\ poConfig \in PoMetricConfigs
    /\ FreshPO

CallDurations == IF poConfig.EnableMetrics THEN Durations ELSE {0}

SerializeMessage(m) ==
    /\ ~poPanicked
    /\ metrics.SerializationCount < MaxCalls
    /\ \E d \in CallDurations :
          /\ serCall' = [SerializeResult(m) EXCEPT !.duration = d]
          /\ metrics' = MetricsAfterSerialize(metrics, SerializeResult(m), d)
          /\ observed' = IF poConfig.EnableMetrics THEN Observe(metrics, d) ELSE observed
    /\ poPanicked' = (SerializeResult(m).err = "panic")
    /\ deserCall' = NoDeserCall
    /\ sinceReset' = IF sinceReset.calls = 0 THEN [sinceReset EXCEPT !.calls = 1]
                     ELSE NoReset
    /\ UNCHANGED <<nonPO, poConfig, stepVars, snapshot>>

ResetMetrics ==
    /\ ~poPanicked
    /\ metrics' = NoMetrics
    /\ sinceReset' = [calls |-> 0, residue |-> poConfig.EnableMetrics /\ metrics # NoMetrics]
    /\ observed' = NoneObserved
    /\ serCall' = NoSerCall
    /\ deserCall' = NoDeserCall
    /\ UNCHANGED <<nonPO, poConfig, poPanicked, stepVars, snapshot>>

\* Byte strings a peer may send: anything short, and every container.
WireBytes == {1, FieldTag, Magic1, Magic2}

RawInputs == SeqsUpTo(WireBytes, MaxRaw) \cup {Gzip(Marshal(m)) : m \in Messages}

\* The bytes the last SerializeMessage call returned, if it returned any.
Serialized == IF serCall.op = "serialize" /\ serCall.err = "" THEN {serCall.out} ELSE {}

DeserializeMessage(data) ==
    /\ ~poPanicked
    /\ metrics.DeserializationCount < MaxCalls
    /\ deserCall' = DeserializeResult(data)
    /\ serCall' = IF data \in Serialized THEN serCall ELSE NoSerCall
    /\ metrics' = IF poConfig.EnableMetrics THEN updateDeserializationMetrics(metrics)
                  ELSE metrics
    /\ sinceReset' = NoReset
    /\ UNCHANGED <<nonPO, poConfig, poPanicked, stepVars, snapshot, observed>>

NextPO ==
    \/ \E m \in Messages : SerializeMessage(m)
    \/ \E data \in RawInputs \cup Serialized : DeserializeMessage(data)

\* --------------------------------------- compressed input past the limit

\* A limit that a field of FieldTag payload bytes fills exactly.
InitPOCapped ==
    /\ poConfig = [EnableCompression |-> TRUE, CompressionThreshold |-> 0,
                   MaxMessageSize |-> FieldTag + 2, EnablePooling |-> TRUE,
                   LevelValid |-> TRUE, EnableMetrics |-> FALSE]
    /\ FreshPO

\* Inputs within the limit themselves: short ones, and containers of one
\* run that unpack to up to twice the limit.
CappedInputs ==
    RawInputs \cup {<<Magic1, Magic2, n, b>> : n \in 1..(2 * (FieldTag + 2)), b \in WireBytes}

NextPOCapped == \E data \in CappedInputs : DeserializeMessage(data)

\* ------------------------------------------- concurrent DeserializeMessage

\* Configurations for concurrent callers: compression on, with and without
\* pooling.
PoPoolConfigs ==
    { [EnableCompression |-> TRUE, CompressionThreshold |-> 0, MaxMessageSize |-> 8,
       EnablePooling |-> pl, LevelValid |-> TRUE, EnableMetrics |-> FALSE]
      : pl \in BOOLEAN }

InitPOPooled ==
    /\ poConfig \in PoPoolConfigs
    /\ FreshPO

\* io.Copy(&buf, ...) into a Buffer whose slice starts the backing array arr:
\* the bytes land at the array's start, what lay beyond them stays.
Overwrite(arr, data) == data \o SubSeq(arr, Len(data) + 1, Len(arr))

\* The bytes a held slice reads now.
HeldBytes(h) == IF h.buf = 0 THEN h.own ELSE SubSeq(bufArray[h.buf], 1, h.len)

\* po.bufferPool.Get(): a buffer put back earlier, or a new one.
GetChoices == {b \in BufIds : b <= bufMade + 1}

\* DeserializeMessage up to the return of decompressData (lines 149-177).
\* With pooling, decompressData copies the pooled Buffer by value (buf =
\* *bufPtr), fills the copy, puts the buffer back and returns buf.Bytes(): a
\* slice of the pooled buffer's backing array.
DeserializeDecompress(c, data) ==
    /\ ~poPanicked
    /\ dcall[c].pc = "idle"
    /\ LET call == [NoCall EXCEPT !.input = data]
           d == decompressData(data)
       IN  IF Len(data) > poConfig.MaxMessageSize
           THEN /\ dcall' = [dcall EXCEPT ![c] = [call EXCEPT !.pc = "done", !.err = "tooLarge"]]
                /\ UNCHANGED <<bufMade, bufArray>>
           ELSE IF ~(poConfig.EnableCompression /\ isCompressedData(data) /\ d.ok)
           THEN /\ dcall' = [dcall EXCEPT ![c] = [call EXCEPT !.pc = "decoding", !.held.own = data]]
                /\ UNCHANGED <<bufMade, bufArray>>
           ELSE IF ~poConfig.EnablePooling
           THEN /\ dcall' = [dcall EXCEPT ![c] = [call EXCEPT !.pc = "decoding", !.held.own = d.data]]
                /\ UNCHANGED <<bufMade, bufArray>>
           ELSE \E b \in GetChoices :
                  /\ bufMade' = IF b > bufMade THEN b ELSE bufMade
                  /\ bufArray' = [bufArray EXCEPT ![b] = Overwrite(@, d.data)]
                  /\ dcall' = [dcall EXCEPT ![c] =
                                 [call EXCEPT !.pc = "decoding", !.held.buf = b,
                                              !.held.len = Len(d.data)]]
    /\ UNCHANGED <<nonPO, poConfig, seqVars, lockVars>>

\* proto.Unmarshal(data, msg) (line 180) reads the held slice.
DeserializeUnmarshal(c) ==
    /\ ~poPanicked
    /\ dcall[c].pc = "decoding"
    /\ LET u == Unmarshal(HeldBytes(dcall[c].held))
       IN  dcall' = [dcall EXCEPT ![c].pc = "done",
                                  ![c].held = NoCall.held,
                                  ![c].msg = u.msg,
                                  ![c].err = IF u.ok THEN "" ELSE "unmarshal"]
    /\ UNCHANGED <<nonPO, poConfig, seqVars, bufMade, bufArray, lockVars>>

\* The caller takes the result and is ready for its next call.
DeserializeReturn(c) ==
    /\ dcall[c].pc = "done"
    /\ dcall' = [dcall EXCEPT ![c] = NoCall]
    /\ UNCHANGED <<nonPO, poConfig, seqVars, bufMade, bufArray, lockVars>>

\* Messages of one repeated byte (they compress) and the inputs made of them.
PooledMessages ==
    {m \in Messages : Len(m) >= MaxPayload - 1 /\ \A i \in 1..Len(m) : m[i] = m[1]}

PooledInputs == {Gzip(Marshal(m)) : m \in PooledMessages} \cup {Marshal(<<4>>)}

NextPOPooled ==
    \/ \E m \in PooledMessages : SerializeMessage(m)
    \/ \E c \in PoCallers, data \in PooledInputs : DeserializeDecompress(c, data)
    \/ \E c \in PoCallers : DeserializeUnmarshal(c)
    \/ \E c \in PoCallers : DeserializeReturn(c)

\* GetMetrics handing out po.metrics itself.
SnapshotSharing(mt) == [taken |-> TRUE, shared |-> TRUE, val |-> mt]

\* GetMetrics: a new ProtobufMetrics holding the seven values.
SnapshotOf(mt) == [taken |-> TRUE, shared |-> FALSE, val |-> mt]

\* The values a holder of the result reads now.
SnapshotValue == IF snapshot.shared THEN metrics ELSE snapshot.val

\* GetMetrics reading without po.metrics.mutex.RLock().
MayRLockAlways == TRUE

\* po.metrics.mutex.RLock() goes through while no writer holds the mutex.
MayRLock == mu = "none"

GetMetrics ==
    /\ ~poPanicked
    /\ MayRLock
    /\ snapshot' = IF poConfig.EnableMetrics THEN SnapshotOf(metrics) ELSE NoSnapshot
    /\ UNCHANGED <<nonPO, poConfig, poPanicked, serCall, deserCall, metrics, sinceReset,
                   observed, stepVars>>

\* The holder of a GetMetrics result assigns to its SerializationCount field.
WriteSnapshot(v) ==
    /\ ~poPanicked
    /\ snapshot.taken
    /\ SnapshotValue.SerializationCount # v
    /\ IF snapshot.shared
       THEN metrics' = [metrics EXCEPT !.SerializationCount = v] /\ UNCHANGED snapshot
       ELSE snapshot' = [snapshot EXCEPT !.val.SerializationCount = v] /\ UNCHANGED metrics
    /\ UNCHANGED <<nonPO, poConfig, poPanicked, serCall, deserCall, sinceReset, observed, stepVars>>

\* ------------------------------------------- metrics under concurrent calls

\* The update functions writing without po.metrics.mutex.Lock().
MayLockAlways == TRUE

\* po.metrics.mutex.Lock() goes through while nobody holds the mutex.
MayLock == mu = "none"

CallsUnderWay(kind) == Cardinality({c \in MetricCallers : mcall[c].pc \in kind})

\* SerializeMessage up to its return statement: the deferred
\* updateSerializationMetrics is still to run, and before it
\* updateCompressionMetrics if the compressed form is returned.
SerializeBody(c, m) ==
    /\ ~poPanicked
    /\ poConfig.EnableMetrics
    /\ mcall[c].pc = "idle"
    /\ counted.ser + CallsUnderWay({"wantComp", "inComp", "wantSer", "inSer"}) < MaxCalls
    /\ SerializeResult(m).err # "panic"
    /\ \E d \in Durations :
          mcall' = [mcall EXCEPT ![c] =
                      [NoMetricCall EXCEPT
                         !.pc = IF UsedCompressed(SerializeResult(m)) THEN "wantComp"
                                ELSE "wantSer",
                         !.original = Len(SerializeResult(m).encoded),
                         !.compressed = Len(SerializeResult(m).out),
                         !.duration = d]]
    /\ UNCHANGED <<nonPO, poConfig, seqVars, bufVars, mu, counted>>

\* DeserializeMessage up to its return: updateDeserializationMetrics is to run.
DeserializeBody(c) ==
    /\ ~poPanicked
    /\ poConfig.EnableMetrics
    /\ mcall[c].pc = "idle"
    /\ counted.deser + CallsUnderWay({"wantDeser", "inDeser"}) < MaxCalls
    /\ mcall' = [mcall EXCEPT ![c].pc = "wantDeser"]
    /\ UNCHANGED <<nonPO, poConfig, seqVars, bufVars, mu, counted>>

\* ResetMetrics is called.
ResetCalled(c) ==
    /\ ~poPanicked
    /\ poConfig.EnableMetrics
    /\ mcall[c].pc = "idle"
    /\ metrics # NoMetrics
    /\ mcall' = [mcall EXCEPT ![c].pc = "wantReset"]
    /\ UNCHANGED <<nonPO, poConfig, seqVars, bufVars, mu, counted>>

Entered(pc) ==
    CASE pc = "wantComp" -> "inComp"
      [] pc = "wantSer" -> "inSer"
      [] pc = "wantDeser" -> "inDeser"
      [] pc = "wantReset" -> "inReset"

\* mutex.Lock() and the first statements of the critical section: the
\* update functions read the fields they change, ResetMetrics zeroes the
\* three counts.
LockMetrics(c) ==
    /\ mcall[c].pc \in {"wantComp", "wantSer", "wantDeser", "wantReset"}
    /\ MayLock
    /\ mu' = c
    /\ mcall' = [mcall EXCEPT ![c].pc = Entered(@), ![c].read = metrics]
    /\ IF mcall[c].pc = "wantReset"
       THEN /\ metrics' = [metrics EXCEPT !.SerializationCount = 0,
                                          !.DeserializationCount = 0,
                                          !.CompressionCount = 0]
            /\ counted' = [ser |-> 0, deser |-> 0]
       ELSE UNCHANGED <<metrics, counted>>
    /\ UNCHANGED <<nonPO, poConfig, poPanicked, serCall, deserCall, sinceReset,
                   observed, snapshot, bufVars>>

\* The fields a critical section writes, computed from what it read.
Written(mc) ==
    LET cmp == updateCompressionMetrics(mc.read, mc.original, mc.compressed)
        ser == updateSerializationMetrics(mc.read, mc.duration)
        des == updateDeserializationMetrics(mc.read)
    IN  CASE mc.pc = "inComp" ->
               [metrics EXCEPT !.CompressionCount = cmp.CompressionCount,
                               !.TotalSerializedSize = cmp.TotalSerializedSize,
                               !.TotalCompressedSize = cmp.TotalCompressedSize,
                               !.AvgCompressionRatio = cmp.AvgCompressionRatio]
          [] mc.pc = "inSer" ->
               [metrics EXCEPT !.SerializationCount = ser.SerializationCount,
                               !.AvgSerializationTime = ser.AvgSerializationTime]
          [] mc.pc = "inDeser" ->
               [metrics EXCEPT !.DeserializationCount = des.DeserializationCount]
          [] mc.pc = "inReset" ->
               [metrics EXCEPT !.TotalSerializedSize = 0,
                               !.TotalCompressedSize = 0,
                               !.AvgSerializationTime = 0,
                               !.AvgCompressionRatio = <<0, 1>>]

\* The rest of the critical section and the deferred mutex.Unlock().
UnlockMetrics(c) ==
    /\ mcall[c].pc \in {"inComp", "inSer", "inDeser", "inReset"}
    /\ metrics' = Written(mcall[c])
    /\ mu' = IF mu = c THEN "none" ELSE mu
    /\ mcall' = [mcall EXCEPT ![c] = IF mcall[c].pc = "inComp"
                                     THEN [@ EXCEPT !.pc = "wantSer"]
                                     ELSE NoMetricCall]
    /\ counted' = [ser |-> counted.ser + (IF mcall[c].pc = "inSer" THEN 1 ELSE 0),
                   deser |-> counted.deser + (IF mcall[c].pc = "inDeser" THEN 1 ELSE 0)]
    /\ UNCHANGED <<nonPO, poConfig, poPanicked, serCall, deserCall, sinceReset,
                   observed, snapshot, bufVars>>

\* Messages for the metrics: empty, one that stays uncompressed, one that shrinks.
MetricMessages == {m \in Messages : m = << >> \/ Len(m) = 1 \/ (Len(m) = MaxPayload /\ \A i \in 1..Len(m) : m[i] = m[1])}

\* Compression on: the larger limit lets the long message through to be
\* compressed, the smaller one makes its serialization fail.
InitPOLocked ==
    /\ poConfig \in {c \in PoMetricConfigs : c.EnableCompression}
    /\ FreshPO

\* Writers of the metrics running against each other.
NextPOLocked ==
    \/ \E c \in MetricCallers, m \in MetricMessages : SerializeBody(c, m)
    \/ \E c \in MetricCallers : DeserializeBody(c)
    \/ \E c \in MetricCallers : ResetCalled(c)
    \/ \E c \in MetricCallers : LockMetrics(c)
    \/ \E c \in MetricCallers : UnlockMetrics(c)

\* Readers of the metrics running against resets and serialize calls.
NextPOReaders ==
    \/ \E c \in MetricCallers, m \in MetricMessages : SerializeBody(c, m)
    \/ \E c \in MetricCallers : ResetCalled(c)
    \/ \E c \in MetricCallers : LockMetrics(c)
    \/ \E c \in MetricCallers : UnlockMetrics(c)
    \/ GetMetrics

NextPOMetrics ==
    \/ \E m \in MetricMessages : SerializeMessage(m)
    \/ \E data \in Serialized : DeserializeMessage(data)
    \/ ResetMetrics

NextPOSnapshot ==
    \/ NextPOMetrics
    \/ GetMetrics
    \/ \E v \in {0, MaxCalls} : WriteSnapshot(v)

\* ======================================================== specifications

\* The state of a component nothing has been done to yet.
QuietCP ==
    /\ InitCP
    /\ config = [MaxConnections |-> 2, MinConnections |-> 1, MaxIdleTime |-> 0]

QuietWP ==
    /\ InitWP
    /\ wpConfig = [WorkerCount |-> 1, QueueSize |-> 1]

QuietPO ==
    /\ InitPO
    /\ poConfig = [EnableCompression |-> TRUE, CompressionThreshold |-> 0,
                   MaxMessageSize |-> 8, EnablePooling |-> TRUE, LevelValid |-> TRUE,
                   EnableMetrics |-> FALSE]

\* A pool just constructed, beside a worker pool nothing touches.
InitSpecCP == InitCP /\ QuietWP /\ QuietPO

SpecCP == InitSpecCP /\ [][NextCP]_vars

InitSpecWP == InitWP /\ QuietCP /\ QuietPO

SpecWP == InitSpecWP /\ [][NextWP]_vars

InitSpecPO == InitPO /\ QuietCP /\ QuietWP

SpecPO == InitSpecPO /\ [][NextPO]_vars

InitSpecPOPooled == InitPOPooled /\ QuietCP /\ QuietWP

SpecPOPooled == InitSpecPOPooled /\ [][NextPOPooled]_vars

InitSpecPOMetrics == InitPOMetrics /\ QuietCP /\ QuietWP

SpecPOMetrics == InitSpecPOMetrics /\ [][NextPOMetrics]_vars

InitSpecPOLocked == QuietCP /\ QuietWP /\ InitPOLocked

SpecPOSnapshot == InitSpecPOLocked /\ [][NextPOSnapshot]_vars

InitSpecPOValidate == QuietCP /\ QuietWP /\ QuietPO /\ vcall.op = "none"

SpecPOValidate == InitSpecPOValidate /\ [][NextPOValidate]_vars

SpecCPAgain == InitSpecCP /\ [][NextCPAgain]_vars

InitSpecCPLocks == QuietCP /\ QuietWP /\ QuietPO

SpecCPLocks == InitSpecCPLocks /\ [][NextCPLocks]_vars

InitSpecPOCapped == QuietCP /\ QuietWP /\ InitPOCapped

SpecPOCapped == InitSpecPOCapped /\ [][NextPOCapped]_vars

SpecPOLocked == InitSpecPOLocked /\ [][NextPOLocked]_vars

SpecPOReaders == InitSpecPOLocked /\ [][NextPOReaders]_vars

\* The health-check goroutine and a caller of Close are scheduled: the loop's
\* select takes the cancelled context, Close goes on once wg.Wait() returns.
FairCP == WF_vars(HealthCheckLoopExit) /\ WF_vars(CloseFinish)

\* Pools of at most two connections, for the properties of Close that need
\* every behaviour followed to its end.
InitSpecCPClose == InitSpecCP /\ config.MaxConnections <= 2

FairSpecCP == InitSpecCPClose /\ [][NextCP]_vars /\ FairCP

\* Go schedules every runnable goroutine: a worker with a job to take takes
\* it, a running job ends, a caller in Submit goes on.
FairWP ==
    /\ \A w \in Workers : WF_vars(WorkerDequeue(w)) /\ WF_vars(WorkerFinish(w))
    /\ \A j \in Jobs : WF_vars(GoFinish(j))
    /\ \A c \in Callers : WF_vars(SubmitSpawn(c))

FairSpecWP == SpecWP /\ FairWP

\* The same, with a caller that does get to call Start.
FairSpecWPStarted == FairSpecWP /\ WF_vars(Start)

\* A job a worker runs returns.  A worker's select chooses among its ready
\* cases by a uniform pseudo-random draw, so a case that is ready again and
\* again (quit, each time the worker is back at its select) is taken.
FairWPStream ==
    \A w \in Workers : WF_vars(WorkerFinish(w)) /\ SF_vars(WorkerQuit(w))

InitSpecWPStream == InitSpecWP /\ wpConfig.QueueSize = 1

FairSpecWPStream == InitSpecWPStream /\ [][NextWPStream]_vars /\ FairWPStream

SpecWPStats == InitSpecWP /\ [][NextWPStats]_vars

\* ------------------------------------------------- connection pool claims

Tracked == UNION {{connections[t][i] : i \in 1..Len(connections[t])}
                  : t \in DOMAIN connections}

IdleCount(t) == Cardinality({i \in 1..Len(ConnsOf(t)) : IsIdle(ConnsOf(t)[i])})

\* C1: for every destination the number of tracked connections is at most
\* MaxConnections, in every reachable state and for every configuration.
C1_WithinMaxConnections ==
    \A t \in DOMAIN connections : Len(connections[t]) <= config.MaxConnections

\* C2: between two GetConnection calls that return the same connection
\* instance there is a ReleaseConnection of it: no instance is returned twice
\* without a release in between.
C2_NoDoubleIssue == \A id \in ConnIds : issued[id] <= 1

\* Two GetConnection calls on one destination have returned, neither released,
\* and the second one found the reusable entry.
C2_Witness ==
    /\ last.op = "get"
    /\ last.res = "reused"
    /\ \E a, b \in Tracked :
          a.id # b.id /\ a.inUse /\ b.inUse /\ issued[a.id] = 1 /\ issued[b.id] = 1

\* C3 as stated: a health-check cycle neither removes nor closes an entry that
\* is in-use when the cycle runs, whatever its liveness.
C3_InUseNeverEvicted ==
    [][last'.op = "hc" =>
         \A pc \in Tracked :
            pc.inUse => (pc.id \in TrackedIds' /\ grpcState'[pc.id] # "shutdown")]_vars

\* C3 amended: a health-check cycle neither removes nor closes an entry that
\* is in-use and passes the liveness check when the cycle runs, however long
\* ago it was last used.
C3_HealthyInUseKept ==
    [][last'.op = "hc" =>
         \A pc \in Tracked :
            (pc.inUse /\ IsHealthy(pc)) =>
               (pc.id \in TrackedIds' /\ grpcState'[pc.id] # "shutdown")]_vars

\* A cycle has just run and kept an in-use, healthy entry whose last use is
\* older than MaxIdleTime.
C3_Witness ==
    /\ last.op = "hc"
    /\ \E pc \in Tracked :
          pc.inUse /\ IsHealthy(pc) /\ IsExpired(pc, config.MaxIdleTime)

\* C10: with MinConnections = 2 and MaxConnections = 4, after construction and
\* one health-check cycle whose dials all succeed, every destination has
\* exactly 2 idle connections.
C10_TwoIdleAfterFirstCycle ==
    (/\ config.MinConnections = 2
     /\ config.MaxConnections = 4
     /\ hist = "oneHC"
     /\ last.op = "hc"
     /\ last.res = "ok")
    => \A t \in Targets : Len(ConnsOf(t)) = 2 /\ IdleCount(t) = 2

\* ----------------------------------------------------- worker pool claims

Running == {j \in Jobs : jobState[j] = "running"}

InSubmit == {c \in Callers : callerJob[c] # 0}

\* C4: with the pool started (at least one worker) and not stopped, every job
\* passed to Submit is executed exactly once, whichever path Submit took: no
\* job is ever started twice, and every submitted job is eventually done.
C4_EveryJobExactlyOnce ==
    /\ [](\A j \in Jobs : execCount[j] <= 1)
    /\ \A j \in Jobs :
          (jobState[j] # "new" /\ started /\ ~quitClosed)
             ~> ((jobState[j] = "done" /\ execCount[j] = 1) \/ quitClosed)

\* All jobs were submitted to a running pool, some through the queue and
\* some on the queue-full path, and each has run once.
C4_Witness ==
    /\ started /\ ~quitClosed
    /\ \A j \in Jobs : jobState[j] = "done" /\ execCount[j] = 1
    /\ \E j \in Jobs : jobPath[j] = "direct"
    /\ \E j \in Jobs : jobPath[j] = "queue"

\* C5: a job Submit took on the queue-full path has finished executing by
\* the time that Submit call has returned.
C5_FullQueueRunsSynchronously ==
    \A j \in Jobs :
       (jobPath[j] = "direct" /\ \A c \in Callers : callerJob[c] # j)
          => jobState[j] = "done"

\* C6: the number of jobs executing at the same time is at most WorkerCount
\* plus the number of callers currently inside Submit.
C6_BoundedConcurrency ==
    Cardinality(Running) <= wpConfig.WorkerCount + Cardinality(InSubmit)

\* --------------------------------------------------------- optimizer claims

HasMagicPrefix(data) == Len(data) >= 2 /\ data[1] = 31 /\ data[2] = 139

\* C7: DeserializeMessage applied to the bytes a successful
\* SerializeMessage(m) returned succeeds and yields m, whether those bytes are
\* the compressed form or the plain encoding.
C7_RoundTrip ==
    (/\ serCall.op = "serialize"
     /\ serCall.err = ""
     /\ deserCall.op = "deserialize"
     /\ deserCall.input = serCall.out)
    => (deserCall.err = "" /\ deserCall.msg = serCall.msg)

\* A message went out compressed and came back.
C7_Witness ==
    /\ serCall.op = "serialize"
    /\ serCall.err = ""
    /\ serCall.out # serCall.encoded
    /\ deserCall.op = "deserialize"
    /\ deserCall.input = serCall.out
    /\ deserCall.msg = serCall.msg

\* C8: when SerializeMessage returns bytes, they are the compressed form only
\* if compression is enabled, the encoding is longer than CompressionThreshold
\* and the compressed form is strictly shorter than the encoding; otherwise
\* they are the encoding itself; so they are never longer than the encoding.
C8_CompressedOnlyWhenShorter ==
    (serCall.op = "serialize" /\ serCall.err = "")
    => LET plain == Marshal(serCall.msg)
           packed == Gzip(plain)
       IN  /\ serCall.out \in {plain, packed}
           /\ serCall.out # plain =>
                 /\ poConfig.EnableCompression
                 /\ Len(plain) > poConfig.CompressionThreshold
                 /\ Len(packed) < Len(plain)
           /\ Len(serCall.out) <= Len(plain)

\* Compression was attempted, the compressed form came out exactly as long
\* as the encoding, and the encoding was returned.
C8_Witness ==
    /\ serCall.op = "serialize"
    /\ serCall.err = ""
    /\ serCall.attempted
    /\ poConfig.LevelValid
    /\ Len(Gzip(serCall.encoded)) = Len(serCall.encoded)
    /\ serCall.out = serCall.encoded

C11_TooLargeBeforeCompression ==
    (serCall.op = "serialize" /\ Len(serCall.encoded) > poConfig.MaxMessageSize)
       => /\ serCall.err = "tooLarge"
          /\ ~serCall.attempted
          /\ serCall.out = << >>

\* An oversized message under a configuration that would have compressed it.
C11_Witness ==
    /\ serCall.op = "serialize"
    /\ Len(serCall.encoded) > poConfig.MaxMessageSize
    /\ poConfig.EnableCompression
    /\ Len(serCall.encoded) > poConfig.CompressionThreshold
    /\ serCall.err = "tooLarge"

\* What one SerializeMessage call adds to zeroed metrics.
ContributionOf(call) ==
    [SerializationCount |-> 1,
     DeserializationCount |-> 0,
     CompressionCount |-> IF UsedCompressed(call) THEN 1 ELSE 0,
     TotalSerializedSize |-> IF UsedCompressed(call) THEN Len(call.encoded) ELSE 0,
     TotalCompressedSize |-> IF UsedCompressed(call) THEN Len(call.out) ELSE 0,
     AvgSerializationTime |-> call.duration,
     AvgCompressionRatio |-> IF UsedCompressed(call)
                             THEN <<Len(call.out), Len(call.encoded)>> ELSE <<0, 1>>]

\* C12: after ResetMetrics and then one SerializeMessage call, the metrics
\* are exactly that call's contribution: count 1, the average equal to the
\* call's duration, compression count and totals holding only what it added.
C12_ResetThenOneCall ==
    (poConfig.EnableMetrics /\ sinceReset.calls = 1)
       => (serCall.op = "serialize" /\ metrics = ContributionOf(serCall))

\* A reset that cleared earlier activity, then one call that compressed.
C12_Witness ==
    /\ poConfig.EnableMetrics
    /\ sinceReset.calls = 1
    /\ sinceReset.residue
    /\ UsedCompressed(serCall)
    /\ metrics.CompressionCount = 1
    /\ metrics.AvgSerializationTime = serCall.duration

\* The destination's set holds MaxConnections entries and none of them is idle.
AtCapacityNoneIdle(t) ==
    /\ Len(ConnsOf(t)) = config.MaxConnections
    /\ \A i \in 1..Len(ConnsOf(t)) : ~IsIdle(ConnsOf(t)[i])

\* C13: GetConnection on a destination whose set holds MaxConnections
\* entries, none idle, returns the exhaustion error in that same step (it
\* waits for no release) and leaves the set and every entry unchanged.
C13_ExhaustedFailsAtOnce ==
    [][\A t \in Targets :
          (GetConnection(t) /\ AtCapacityNoneIdle(t))
             => /\ last'.res = "exhausted"
                /\ connections' = connections]_vars

\* GetConnection has just failed on a full destination with every entry in use.
C13_Witness ==
    /\ last = [op |-> "get", res |-> "exhausted", id |-> 0]
    /\ \E t \in Targets : AtCapacityNoneIdle(t) /\ Len(ConnsOf(t)) >= 1

\* C14: ReleaseConnection(t, conn) makes the entry of t that wraps conn idle
\* and leaves the set's size, its order, every other entry, the entry's own
\* connection and use count, and every other destination as they were; when
\* no entry of t wraps conn the pool is left as it was.
C14_ReleaseTouchesOnlyTheMatch ==
    [][\A t \in Targets, id \in ConnIds :
          ReleaseConnection(t, id)
             => /\ DOMAIN connections' = DOMAIN connections
                /\ \A u \in DOMAIN connections :
                      /\ Len(connections'[u]) = Len(connections[u])
                      /\ \A k \in 1..Len(connections[u]) :
                            IF u = t /\ connections[u][k].id = id
                            THEN /\ IsIdle(connections'[u][k])
                                 /\ connections'[u][k].id = id
                                 /\ connections'[u][k].useCount = connections[u][k].useCount
                            ELSE connections'[u][k] = connections[u][k]
                /\ grpcState' = grpcState
                /\ nextId' = nextId
                /\ ctxCancelled' = ctxCancelled]_vars

\* A release has just made one in-use entry idle beside another entry that
\* is still in use.
C14_Witness ==
    /\ last.op = "release"
    /\ last.res = "idle"
    /\ \E a, b \in Tracked :
          a.id = last.id /\ ~a.inUse /\ b.id # a.id /\ b.inUse

\* Connections dialed so far.
Dialed == 1..(nextId - 1)

\* C15: when Close has just returned the health-check loop has ended, every
\* connection the pool ever tracked is closed and no destination has an
\* entry; and a Close that has begun returns, whatever else is going on.
C15_CloseStopsAndClosesAll ==
    /\ [](last.op = "close" =>
            /\ ~loopRunning
            /\ \A id \in Dialed : grpcState[id] = "shutdown"
            /\ TrackedIds = {})
    /\ (closePc = "waiting" ~> closePc = "idle")

\* Close has just returned after closing a connection a caller still held.
C15_Witness ==
    /\ last.op = "close"
    /\ closeReturned
    /\ \E id \in Dialed : issued[id] = 1 /\ grpcState[id] = "shutdown"

\* ------------------------------------------------- worker pool, stopping

\* C16: a second or later call to Stop completes normally and leaves the
\* pool as the first call left it.
C16_StopIdempotent ==
    [][(Stop /\ quitClosed)
          => /\ ~wpPanicked'
             /\ quitClosed'
             /\ worker' = worker
             /\ jobQueue' = jobQueue]_vars

\* C17: once Stop has been called no worker takes a job from the queue.
C17_NoDequeueAfterStop ==
    [][\A w \in Workers : quitClosed => ~WorkerDequeue(w)]_vars

\* C18: every job handed to Submit, in whatever state the pool is, is
\* eventually executed to its end (unless the process has panicked).
C18_NoJobDiscarded ==
    \A j \in Jobs : (jobState[j] # "new") ~> (jobState[j] = "done" \/ wpPanicked)

\* C19: GetWorkerPoolStats leaves the queue, the workers and the stop signal
\* as they were and reports 0 <= queue_length <= queue_capacity, the
\* configured worker count and the configured queue size.
C19_StatsReadOnly ==
    [][GetWorkerPoolStats
          => /\ jobQueue' = jobQueue
             /\ worker' = worker
             /\ workerJob' = workerJob
             /\ quitClosed' = quitClosed
             /\ stats'.queue_length >= 0
             /\ stats'.queue_length <= stats'.queue_capacity
             /\ stats'.worker_count = wpConfig.WorkerCount
             /\ stats'.queue_capacity = wpConfig.QueueSize]_vars

\* The statistics were read with the queue full and a worker executing a job,
\* and nothing has happened since.
C19_Witness ==
    /\ stats.op = "stats"
    /\ stats.queue_capacity >= 1
    /\ stats.queue_length = stats.queue_capacity
    /\ Len(jobQueue) = stats.queue_length
    /\ \E w \in Workers : worker[w] = "busy"

\* ------------------------------------------------------ optimizer, pooling

\* C20: whatever the interleaving of concurrent calls, a finished
\* DeserializeMessage call has the message and error the same input gives
\* with pooling disabled.
C20_PoolingTransparent ==
    \A c \in PoCallers :
       dcall[c].pc = "done"
          => /\ dcall[c].msg = DeserializeResult(dcall[c].input).msg
             /\ dcall[c].err = DeserializeResult(dcall[c].input).err

\* ------------------------------------------------------ optimizer, metrics

\* C21: serialize, deserialize and ResetMetrics calls leave the values of a
\* GetMetrics result already handed out as they are, and a write to such a
\* result leaves the aggregator's counters as they are.
C21_SnapshotIsACopy ==
    [][/\ ((\/ \E m \in MetricMessages : SerializeMessage(m)
            \/ \E data \in Serialized : DeserializeMessage(data)
            \/ ResetMetrics)
           => SnapshotValue' = SnapshotValue)
       /\ ((\E v \in {0, MaxCalls} : WriteSnapshot(v)) => metrics' = metrics)]_vars

\* A result is held whose values differ from the aggregator's in a field the
\* holder never wrote: calls went on after it was handed out.
C21_Witness ==
    /\ snapshot.taken
    /\ snapshot.val.AvgSerializationTime # metrics.AvgSerializationTime
    /\ snapshot.val.SerializationCount # metrics.SerializationCount
    /\ snapshot.val.AvgSerializationTime > 0

\* Values that mix zeroed fields with fields not zeroed: a count is zero
\* while what is accumulated with it is not.
PartlyReset(v) ==
    \/ v.SerializationCount = 0 /\ v.AvgSerializationTime # 0
    \/ v.CompressionCount = 0 /\ (v.TotalSerializedSize # 0 \/ v.TotalCompressedSize # 0)

\* C22: no GetMetrics result shows the metrics partly reset, whatever calls
\* run at the same time.
C22_ResetIsAtomic == snapshot.taken => ~PartlyReset(snapshot.val)

\* A result taken after a reset that cleared earlier activity while another
\* call was between its two updates.
C22_Witness ==
    /\ snapshot.taken
    /\ snapshot.val.SerializationCount = 0
    /\ snapshot.val.CompressionCount = 1
    /\ \E c \in MetricCallers : mcall[c].pc = "wantReset"

\* C23: whenever no update is in its critical section, SerializationCount
\* and DeserializationCount equal the numbers of serialize and deserialize
\* calls, failed ones included, that have finished since the counts were
\* last zeroed.
C23_NoLostIncrement ==
    (\A c \in MetricCallers : mcall[c].pc \notin {"inComp", "inSer", "inDeser", "inReset"})
       => /\ metrics.SerializationCount = counted.ser
          /\ metrics.DeserializationCount = counted.deser

\* Serialize calls, not all of them compressing, and a deserialize call
\* have finished while another deserialize call is on its way.
C23_Witness ==
    /\ counted.ser = MaxCalls
    /\ counted.deser >= 1
    /\ metrics.SerializationCount = MaxCalls
    /\ metrics.CompressionCount < MaxCalls
    /\ \E c \in MetricCallers : mcall[c].pc = "wantDeser"

\* C24: a serialize call that finds the count at zero, after construction
\* or a reset, sets the average to its own duration; any later call sets
\* it to nine tenths of the old average plus a tenth of its duration, cut
\* to a whole number; and the average lies between the shortest and the
\* longest duration fed in since it was seeded.
C24_AverageSeededThenSmoothed ==
    [][((\E m \in MetricMessages : SerializeMessage(m)) /\ poConfig.EnableMetrics)
         => /\ metrics'.AvgSerializationTime =
                 IF metrics.SerializationCount = 0 THEN serCall'.duration
                 ELSE (9 * metrics.AvgSerializationTime + serCall'.duration) \div 10
            /\ observed'.lo <= metrics'.AvgSerializationTime
            /\ metrics'.AvgSerializationTime <= observed'.hi]_vars

\* The average strictly inside the range after a seed and a different duration.
C24_Witness ==
    /\ poConfig.EnableMetrics
    /\ metrics.SerializationCount = MaxCalls
    /\ observed.lo < metrics.AvgSerializationTime
    /\ metrics.AvgSerializationTime < observed.hi
    /\ sinceReset.calls = -1

RequiredUnset(msg) ==
    {i \in 1..Len(msg.fields) :
        msg.fields[i].cardinality = "required" /\ ~msg.fields[i].has}

\* C25: ValidateMessage fails for a nil and for an invalid message; for a
\* valid one it fails exactly when some required field is unset, and the
\* field it names is the first such field in declaration order.
C25_ValidateNamesFirstMissing ==
    vcall.op = "validate" =>
       /\ vcall.msg.kind # "valid" => vcall.err # ""
       /\ vcall.msg.kind = "valid" =>
             /\ (vcall.err = "") <=> (RequiredUnset(vcall.msg) = {})
             /\ vcall.err # "" =>
                   /\ vcall.field \in RequiredUnset(vcall.msg)
                   /\ \A j \in RequiredUnset(vcall.msg) : vcall.field <= j

\* A message with an unset optional field first and two unset required
\* fields after it: the earlier of the two is the one named.
C25_Witness ==
    /\ vcall.op = "validate"
    /\ Len(vcall.msg.fields) = MaxFields
    /\ ~vcall.msg.fields[1].has
    /\ vcall.msg.fields[1].cardinality = "optional"
    /\ Cardinality(RequiredUnset(vcall.msg)) = 2
    /\ vcall.field = 2

\* The input is a container whose content is longer than MaxMessageSize.
UnpacksPastLimit(data) ==
    /\ poConfig.EnableCompression
    /\ isCompressedData(data)
    /\ Gunzip(data).ok
    /\ Len(Gunzip(data).data) > poConfig.MaxMessageSize

\* C26: a DeserializeMessage call whose compressed input unpacks to more
\* than MaxMessageSize bytes returns an error rather than a message decoded
\* from the first MaxMessageSize bytes; and what reaches the decoder is
\* never longer than MaxMessageSize.
C26_NoTruncatedDecode ==
    deserCall.op = "deserialize" =>
       /\ UnpacksPastLimit(deserCall.input) => deserCall.err # ""
       /\ Len(deserCall.decoderInput) <= poConfig.MaxMessageSize

C28_FailedDialChangesNothing ==
    [][\A t \in Targets :
         (GetConnection(t) /\ last'.res = "dialFailed")
            => /\ last'.id = 0
               /\ connections' = connections
               /\ issued' = issued]_vars

\* A dial has just failed for a destination that has an entry in use.
C28_Witness ==
    /\ last = [op |-> "get", res |-> "dialFailed", id |-> 0]
    /\ \E t \in DOMAIN connections :
          /\ Len(connections[t]) >= 1
          /\ \A i \in 1..Len(connections[t]) : connections[t][i].inUse

\* Entries of a set that are idle and whose connection is ready.
IdleHealthy(conns) ==
    {i \in 1..Len(conns) : ~conns[i].inUse /\ grpcState[conns[i].id] = "ready"}

\* The call reuses one idle and healthy entry: that entry becomes in use
\* with its use count one higher, and the set keeps its size.
ReusedOne(t) ==
    /\ last'.res = "reused"
    /\ nextId' = nextId
    /\ Len(connections'[t]) = Len(ConnsOf(t))
    /\ \E i \in IdleHealthy(ConnsOf(t)) :
          /\ last'.id = ConnsOf(t)[i].id
          /\ connections'[t][i].inUse
          /\ connections'[t][i].useCount = ConnsOf(t)[i].useCount + 1
          /\ \A k \in 1..Len(ConnsOf(t)) : k # i => connections'[t][k] = ConnsOf(t)[k]

\* The call appends one entry, in use with use count 1, and returns it.
AppendedOne(t) ==
    /\ last'.res = "created"
    /\ Len(connections'[t]) = Len(ConnsOf(t)) + 1
    /\ SubSeq(connections'[t], 1, Len(ConnsOf(t))) = ConnsOf(t)
    /\ connections'[t][Len(connections'[t])].inUse
    /\ connections'[t][Len(connections'[t])].useCount = 1
    /\ connections'[t][Len(connections'[t])].id = last'.id

\* C30 as stated: with an idle and healthy entry the call reuses one; with
\* none and the set below MaxConnections it appends one new entry.
C30_AsStated ==
    [][\A t \in Targets :
         GetConnection(t) =>
            IF IdleHealthy(ConnsOf(t)) # {} THEN ReusedOne(t)
            ELSE (Len(ConnsOf(t)) < config.MaxConnections => AppendedOne(t))]_vars

\* C30: with an idle and healthy entry the call reuses one and creates
\* nothing; with none and the set below MaxConnections it dials, and
\* appends one new entry in use with use count 1 if the dial succeeds and
\* leaves the set alone if it fails; a full set is left alone.
C30_ReuseBeforeCreate ==
    [][\A t \in Targets :
         GetConnection(t) =>
            IF IdleHealthy(ConnsOf(t)) # {} THEN ReusedOne(t)
            ELSE IF Len(ConnsOf(t)) < config.MaxConnections
            THEN \/ AppendedOne(t)
                 \/ last'.res = "dialFailed" /\ connections' = connections
            ELSE last'.res = "exhausted" /\ connections' = connections]_vars

\* The second of two idle and healthy entries stays idle while the first,
\* used before, has just been handed out again.
C30_Witness ==
    /\ last.op = "get"
    /\ last.res = "reused"
    /\ \E t \in DOMAIN connections :
          /\ Len(connections[t]) >= 2
          /\ connections[t][1].id = last.id
          /\ connections[t][1].useCount = 2
          /\ ~connections[t][2].inUse
          /\ grpcState[connections[t][2].id] = "ready"

\* C29: a SerializeMessage call whose compression step fails returns the
\* encoded bytes uncompressed and no error, and counts no compression.
C29_CompressionFailureFallsBack ==
    (/\ serCall.op = "serialize"
     /\ serCall.attempted
     /\ compressData(serCall.encoded).res # "ok")
       => /\ serCall.err = ""
          /\ serCall.out = serCall.encoded
          /\ ~UsedCompressed(serCall)
          /\ ~poPanicked

\* C31: a health-check cycle removes an entry exactly when its connection
\* is not ready or it is idle and was last used more than MaxIdleTime ago;
\* every entry it removes is closed, every other entry stays as it was.
C31_EvictsExactlyTheUnfit ==
    [][HealthCheckTick =>
         \A pc \in Tracked :
            /\ (pc.id \notin TrackedIds')
                  <=> (\/ grpcState[pc.id] # "ready"
                       \/ ~pc.inUse /\ pc.idleFor > config.MaxIdleTime)
            /\ pc.id \notin TrackedIds' => grpcState'[pc.id] = "shutdown"
            /\ pc.id \in TrackedIds' => (pc \in Tracked' /\ grpcState'[pc.id] = "ready")]_vars

\* A cycle of an open pool has kept a healthy entry idle for exactly
\* MaxIdleTime, and a connection it evicted is closed and tracked no more.
C31_Witness ==
    /\ last.op = "hc"
    /\ closePc = "idle" /\ ~closeReturned
    /\ \E pc \in Tracked :
          ~pc.inUse /\ grpcState[pc.id] = "ready" /\ pc.idleFor = config.MaxIdleTime
    /\ \E id \in ConnIds : id \notin TrackedIds /\ grpcState[id] = "shutdown"

\* C32 as stated: GetConnection reports exhaustion only when the set is
\* full and none of its entries is idle (a set the top-up has grown past
\* MaxConnections counts as full here).
C32_AsStated ==
    [][\A t \in Targets :
         (GetConnection(t) /\ last'.res = "exhausted")
            => /\ Len(ConnsOf(t)) >= config.MaxConnections
               /\ \A i \in 1..Len(ConnsOf(t)) : ConnsOf(t)[i].inUse]_vars

\* C32: GetConnection reports exhaustion exactly when the set holds at
\* least MaxConnections entries and none of them is both idle and healthy;
\* an idle entry whose connection is not ready does not prevent it.
C32_ExhaustedIffFullAndNoneReusable ==
    [][\A t \in Targets :
         GetConnection(t) =>
            ((last'.res = "exhausted")
               <=> /\ Len(ConnsOf(t)) >= config.MaxConnections
                   /\ IdleHealthy(ConnsOf(t)) = {})]_vars

\* Exhaustion has just been reported for a full set whose only entry is
\* idle with a connection that is not ready.
C32_Witness ==
    /\ last = [op |-> "get", res |-> "exhausted", id |-> 0]
    /\ \E t \in DOMAIN connections :
          /\ Len(connections[t]) = config.MaxConnections
          /\ \E i \in 1..Len(connections[t]) :
                ~connections[t][i].inUse /\ grpcState[connections[t][i].id] = "failed"

\* C33: GetConnection never returns a connection that a caller holds and
\* has not released, also when another caller releases it a second time.
C33_HeldNotHandedOut ==
    [][\A t \in Targets :
         GetConnection(t) => \A id \in ConnIds : issued[id] >= 1 => last'.id # id]_vars

CompressionTotals(mt) ==
    <<mt.CompressionCount, mt.TotalSerializedSize, mt.TotalCompressedSize>>

\* C34: with metrics enabled, a serialize call that returns the compressed
\* form adds one to CompressionCount, the encoded length to
\* TotalSerializedSize and the returned length to TotalCompressedSize; any
\* other serialize call and every deserialize call leave the three alone; a
\* reset zeroes them; and TotalCompressedSize < TotalSerializedSize
\* whenever CompressionCount > 0.
C34_CompressionTotals ==
    [][/\ (\E m \in MetricMessages : SerializeMessage(m)) =>
             CompressionTotals(metrics') =
                IF serCall'.err = "" /\ isCompressedData(serCall'.out)
                THEN <<metrics.CompressionCount + 1,
                       metrics.TotalSerializedSize + Len(serCall'.encoded),
                       metrics.TotalCompressedSize + Len(serCall'.out)>>
                ELSE CompressionTotals(metrics)
       /\ (\E data \in Serialized : DeserializeMessage(data)) =>
             CompressionTotals(metrics') = CompressionTotals(metrics)
       /\ ResetMetrics => CompressionTotals(metrics') = <<0, 0, 0>>
       /\ metrics'.CompressionCount > 0 =>
             metrics'.TotalCompressedSize < metrics'.TotalSerializedSize]_vars

\* Two serialize calls since the reset, one of which returned the
\* compressed form.
C34_Witness ==
    /\ poConfig.EnableMetrics
    /\ metrics.SerializationCount = 2
    /\ metrics.CompressionCount = 1
    /\ metrics.TotalCompressedSize > 0
    /\ metrics.TotalCompressedSize < metrics.TotalSerializedSize
    /\ serCall.op = "serialize" /\ ~UsedCompressed(serCall)

\* C35: once Close has returned the map is empty, the context cancelled
\* and the health-check loop gone, and it stays so: a GetConnection call
\* returns an error and no connection, no cycle runs, releases find
\* nothing, and another Close changes neither the map nor any connection.
C35_CloseIsTerminal ==
    /\ [](closeReturned => (connections = << >> /\ ctxCancelled /\ ~loopRunning))
    /\ [][closeReturned =>
            /\ connections' = << >>
            /\ grpcState' = grpcState
            /\ nextId' = nextId
            /\ ~HealthCheckTick
            /\ \A t \in Targets :
                  GetConnection(t) => (last'.res = "dialFailed" /\ last'.id = 0)
            /\ \A t \in Targets, id \in ConnIds :
                  ReleaseConnection(t, id) => last'.res = "notFound"]_vars

\* After Close returned, having closed a connection, a second Close has
\* begun and a GetConnection call has just failed.
C35_Witness ==
    /\ closeReturned
    /\ closePc = "waiting"
    /\ last = [op |-> "get", res |-> "dialFailed", id |-> 0]
    /\ \E id \in ConnIds : grpcState[id] = "shutdown"

\* C36: once Stop has been called, every worker that runs returns (unless
\* the process has panicked), also when the queue is refilled without end.
C36_WorkersTerminateAfterStop ==
    \A w \in Workers :
       (quitClosed /\ worker[w] \in {"idle", "busy"}) ~> (worker[w] = "exited" \/ wpPanicked)

\* Every worker has returned after Stop, one of them after a job from the
\* queue, and a job is waiting in the queue they left.
C36_Witness ==
    /\ quitClosed
    /\ ~wpPanicked
    /\ started
    /\ \A w \in Workers : worker[w] \in {"exited", "off"}
    /\ jobQueue # << >>
    /\ \E j \in Jobs : jobState[j] = "done" /\ jobPath[j] = "queue"


\* ---- C37

\* A goroutine inside a method of the pool that cannot take its next step.
Blocked(g) == Step(g) # "rest" /\ ~ENABLED Proceed(g)

\* The goroutines a blocked goroutine waits for.
WaitsFor(g) ==
    IF Step(g) = "Wait" THEN {"hc"}
    ELSE IF Step(g) = "Lock"
    THEN {h \in Goroutines \ {g} : Holds(cpMutex, h)}
    ELSE IF Step(g) = "RLock"
    THEN {h \in Goroutines \ {g} : cpMutex.writer = h} \cup PendingWriters
    ELSE IF Step(g) = "body" /\ goroutine[g].e # 0
    THEN {h \in Goroutines \ {g} : Holds(pcMutex[goroutine[g].e], h)}
    ELSE {}

\* Some goroutines are blocked and wait for one another only.
Deadlocked ==
    \E S \in SUBSET Goroutines :
       /\ S # {}
       /\ \A g \in S : Blocked(g) /\ WaitsFor(g) \subseteq S

\* C37: a goroutine that holds the lock of a pooled connection holds the
\* pool's lock and is past acquiring it, so the pool's lock is never
\* requested by a holder of a connection's lock; and no interleaving of
\* GetConnection, ReleaseConnection, GetStats, health-check cycles and Close
\* reaches a state where goroutines wait for one another.
C37_LockOrderNoDeadlock ==
    /\ \A g \in Goroutines : \A e \in Entries :
          Holds(pcMutex[e], g) => Holds(cpMutex, g) /\ Step(g) = "body"
    /\ ~Deadlocked

\* C37 witness: Close waits for the health-check loop, whose cycle is a
\* pending writer of the pool's lock, which a GetStats call holds for
\* reading together with the lock of an entry.
C37_Witness ==
    /\ goroutine["c2"].op = "Close"
    /\ Step("c2") = "Wait"
    /\ "hc" \in PendingWriters
    /\ goroutine["c1"].op = "GetStats"
    /\ Holds(cpMutex, "c1")
    /\ Holds(pcMutex[1], "c1")
    /\ Blocked("c2")
    /\ Blocked("hc")

\* ---- C38

\* C38: every GetMetrics result, whatever serialize calls run at the same
\* time, has CompressionCount <= SerializationCount.
C38_CompressionWithinSerialization ==
    snapshot.taken => snapshot.val.CompressionCount <= snapshot.val.SerializationCount

\* ---- C39

\* C39: with pooling enabled, the bytes decompressData handed to a call
\* that is still to decode them share no storage with a buffer of the
\* free-list: no step of another call, which may borrow that buffer,
\* changes what they read.
C39_NotOverwritten ==
    [][\A c \in PoCallers :
          poConfig.EnablePooling /\ dcall[c].pc = "decoding" /\ dcall'[c].pc = "decoding"
             => HeldBytes(dcall[c].held)' = HeldBytes(dcall[c].held)]_vars

====
